---------------------------- MODULE Spec2Model ----------------------------
(***************************************************************************)
(* A model of the http-response-compression middleware.                    *)
(*                                                                         *)
(* Text is modelled at the level of characters: a header value is a        *)
(* sequence of one-character strings, so that splitting, trimming, prefix  *)
(* tests, case folding and number parsing are computed the way the code    *)
(* computes them.  All four codec features (zstd, brotli, gzip, deflate)   *)
(* are taken as enabled.                                                   *)
(***************************************************************************)
EXTENDS Integers, Sequences, FiniteSets, TLC

VARIABLES
    pc,               \* position of one request: "start", "called", "ready", "failed"
    segments,         \* the request's Accept-Encoding header: None, or Some(list of segments)
    min_size,         \* CompressionService.min_size
    accepted_codec,   \* ResponseFuture.accepted_codec
    response,         \* what the inner future resolves to: [ok |-> BOOLEAN, headers |-> HeaderMap]
    wrapped,          \* output of ResponseFuture::poll: None, or Some([ok, headers, body])
    stream,           \* the CompressionBody being pulled: None, or Some(body)
    inner,            \* the inner body: [frames |-> what it yields, pos |-> how much it has yielded,
                      \*   waker |-> its last poll_frame returned Pending and kept cx's waker]
    pull,             \* position inside poll_frame: "idle", "loop", "encode", "flush"
    result,           \* what the last poll_frame returned: None, or Some(Poll)
    calls,            \* which calls this poll_frame has made: "poll_frame", "encode", "flush", "finish"
    input_buf,        \* compress_chunk's input_buf: [buffer |-> bytes, written_len |-> consumed]
    all_output,       \* compress_chunk's all_output: the bytes collected
    enc,              \* the encoder: number of bytes consumed, failed, broken, calls held
                      \*   back, bytes consumed, bytes written, finish called, finish done
    emitted,          \* the frames poll_frame has returned so far
    pulls,            \* the number of times poll_frame has returned, modulo 2
    output_buffer     \* CompressedBody's output_buffer

svcvars == <<pc, segments, min_size, accepted_codec, response, wrapped>>

bodyvars == <<stream, inner, pull, result, calls, input_buf, all_output, enc, emitted, pulls,
              output_buffer>>

vars == <<svcvars, bodyvars>>

(***************************************************************************)
(* Bytes and text                                                          *)
(***************************************************************************)

\* Option<T>: None is the empty sequence, Some(x) the sequence holding x
None == <<>>

Some(x) == <<x>>

IsSome(o) == o # <<>>

\* Option::unwrap on a Some
Unwrap(o) == o[1]

\* A byte >= 0x80 (obs-text): allowed in an http::HeaderValue, not visible ASCII.
OBS == "0xFF"

TAB == "\t"

UpperCase == <<"A","B","C","D","E","F","G","H","I","J","K","L","M",
               "N","O","P","Q","R","S","T","U","V","W","X","Y","Z">>

LowerCase == <<"a","b","c","d","e","f","g","h","i","j","k","l","m",
               "n","o","p","q","r","s","t","u","v","w","x","y","z">>

DigitChars == <<"0","1","2","3","4","5","6","7","8","9">>

\* u8::to_ascii_lowercase
to_ascii_lowercase(c) ==
    IF \E i \in 1..26 : UpperCase[i] = c
    THEN LowerCase[CHOOSE i \in 1..26 : UpperCase[i] = c]
    ELSE c

\* str::eq_ignore_ascii_case
eq_ignore_ascii_case(a, b) ==
    /\ Len(a) = Len(b)
    /\ \A i \in 1..Len(a) : to_ascii_lowercase(a[i]) = to_ascii_lowercase(b[i])

\* HeaderValue::to_str: the text, or None when a byte is not visible ASCII
\* (visible: 32 <= b < 127 or b = '\t').
to_str(v) ==
    IF \A i \in 1..Len(v) : v[i] # OBS THEN Some(v) ELSE None

IsWhitespace(c) == c \in {" ", TAB}

RECURSIVE trim_start(_)
trim_start(s) ==
    IF s # <<>> /\ IsWhitespace(Head(s)) THEN trim_start(Tail(s)) ELSE s

RECURSIVE trim_end(_)
trim_end(s) ==
    IF s # <<>> /\ IsWhitespace(s[Len(s)])
    THEN trim_end(SubSeq(s, 1, Len(s) - 1))
    ELSE s

\* str::trim
trim(s) == trim_end(trim_start(s))

\* str::find(char): index of the first occurrence of c in s, 0 when there is none
find(s, c) ==
    LET I == {i \in 1..Len(s) : s[i] = c}
    IN  IF I = {} THEN 0 ELSE CHOOSE i \in I : \A j \in I : i <= j

\* str::split(char): the pieces between the separators; one piece for a text
\* without separator, the empty text included
RECURSIVE split(_, _)
split(s, c) ==
    LET i == find(s, c)
    IN  IF i = 0 THEN <<s>>
        ELSE <<SubSeq(s, 1, i - 1)>> \o split(SubSeq(s, i + 1, Len(s)), c)

\* str::splitn(2, char): at most two pieces, cut at the first separator
splitn2(s, c) ==
    LET i == find(s, c)
    IN  IF i = 0 THEN <<s>>
        ELSE <<SubSeq(s, 1, i - 1), SubSeq(s, i + 1, Len(s))>>

\* str::starts_with
starts_with(s, p) == Len(s) >= Len(p) /\ SubSeq(s, 1, Len(p)) = p

IsDigit(c) == \E i \in 1..10 : DigitChars[i] = c

DigitVal(c) == (CHOOSE i \in 1..10 : DigitChars[i] = c) - 1

AllDigits(s) == \A i \in 1..Len(s) : IsDigit(s[i])

\* value of a run of decimal digits (0 for the empty run)
RECURSIVE DecVal(_)
DecVal(s) ==
    IF s = <<>> THEN 0
    ELSE 10 * DecVal(SubSeq(s, 1, Len(s) - 1)) + DigitVal(s[Len(s)])

RECURSIVE Pow10(_)
Pow10(k) == IF k = 0 THEN 1 ELSE 10 * Pow10(k - 1)

\* str::parse::<usize>: an optional '+', then one or more digits and nothing
\* else; None for any other text.  (The overflow error needs more than 19
\* digits and is outside the texts enumerated here.)
parse_usize(s) ==
    LET d == IF s # <<>> /\ Head(s) = "+" THEN Tail(s) ELSE s
    IN  IF d # <<>> /\ AllDigits(d) THEN Some(DecVal(d)) ELSE None

(***************************************************************************)
(* f32.  A parsed value is NaN, an infinity, or a decimal n / 10^d kept    *)
(* exactly; the decimals enumerated have few digits, so two of them        *)
(* compare as their f32 roundings do.                                      *)
(***************************************************************************)

NaN == [kind |-> "nan"]

Inf(neg) == [kind |-> "inf", neg |-> neg]

Num(n, d) == [kind |-> "num", n |-> n, d |-> d]

\* f32 literal 1.0
One == Num(1, 0)

\* f32 literal 0.0
Zero == Num(0, 0)

\* the mantissa  digits [ '.' digits ]  with at least one digit, else None
parse_decimal(s) ==
    LET p    == find(s, ".")
        int  == IF p = 0 THEN s ELSE SubSeq(s, 1, p - 1)
        frac == IF p = 0 THEN <<>> ELSE SubSeq(s, p + 1, Len(s))
    IN  IF AllDigits(int) /\ AllDigits(frac) /\ Len(int) + Len(frac) > 0
        THEN Some(Num(DecVal(int) * Pow10(Len(frac)) + DecVal(frac), Len(frac)))
        ELSE None

\* the exponent  [+-] digits  with at least one digit, else None
parse_exponent(s) ==
    LET neg == s # <<>> /\ Head(s) = "-"
        d   == IF s # <<>> /\ Head(s) \in {"+", "-"} THEN Tail(s) ELSE s
    IN  IF d # <<>> /\ AllDigits(d)
        THEN Some(IF neg THEN 0 - DecVal(d) ELSE DecVal(d))
        ELSE None

\* m * 10^x for a decimal m
scale10(m, x) ==
    IF x <= 0 THEN Num(m.n, m.d - x)
    ELSE IF x <= m.d THEN Num(m.n, m.d - x)
    ELSE Num(m.n * Pow10(x - m.d), 0)

\* str::parse::<f32> (core::num::dec2flt): optional sign, then a decimal with
\* an optional exponent, or one of nan, inf, infinity in any letter case.
parse_f32(s) ==
    LET neg  == s # <<>> /\ Head(s) = "-"
        body == IF s # <<>> /\ Head(s) \in {"+", "-"} THEN Tail(s) ELSE s
        low  == [i \in 1..Len(body) |-> to_ascii_lowercase(body[i])]
        e    == find(low, "e")
        mant == parse_decimal(IF e = 0 THEN body ELSE SubSeq(body, 1, e - 1))
        exp  == IF e = 0 THEN Some(0) ELSE parse_exponent(SubSeq(body, e + 1, Len(body)))
    IN  IF low = <<"n", "a", "n">> THEN Some(NaN)
        ELSE IF low \in {<<"i", "n", "f">>, <<"i", "n", "f", "i", "n", "i", "t", "y">>} THEN Some(Inf(neg))
        ELSE IF mant = None \/ exp = None THEN None
        ELSE LET v == scale10(Unwrap(mant), Unwrap(exp))
             IN  Some(Num(IF neg THEN 0 - v.n ELSE v.n, v.d))

\* -1, 0, 1 as a < b, a = b, a > b; for two values that are not NaN
F32Cmp(a, b) ==
    IF a.kind = "inf" \/ b.kind = "inf"
    THEN LET ra == IF a.kind = "inf" THEN (IF a.neg THEN 0 - 1 ELSE 1) ELSE 0
             rb == IF b.kind = "inf" THEN (IF b.neg THEN 0 - 1 ELSE 1) ELSE 0
         IN  IF ra < rb THEN 0 - 1 ELSE IF ra > rb THEN 1 ELSE 0
    ELSE LET x == a.n * Pow10(b.d)
             y == b.n * Pow10(a.d)
         IN  IF x < y THEN 0 - 1 ELSE IF x > y THEN 1 ELSE 0

\* f32 `>`: false when either side is NaN
F32Gt(a, b) == a.kind # "nan" /\ b.kind # "nan" /\ F32Cmp(a, b) = 1

\* f32 `==`: false when either side is NaN; -0.0 == 0.0
F32Eq(a, b) == a.kind # "nan" /\ b.kind # "nan" /\ F32Cmp(a, b) = 0

(***************************************************************************)
(* codec.rs                                                                *)
(***************************************************************************)

Codec == {"Zstd", "Brotli", "Gzip", "Deflate"}

\* Codec::content_encoding
content_encoding(c) ==
    CASE c = "Zstd"    -> <<"z", "s", "t", "d">>
      [] c = "Brotli"  -> <<"b", "r">>
      [] c = "Gzip"    -> <<"g", "z", "i", "p">>
      [] c = "Deflate" -> <<"d", "e", "f", "l", "a", "t", "e">>

\* priority (lower is better)
priority(c) ==
    CASE c = "Zstd"    -> 0
      [] c = "Brotli"  -> 1
      [] c = "Gzip"    -> 2
      [] c = "Deflate" -> 3

\* parse_encoding_with_quality cutting at every ';' and reading the quality
\* from the piece after the first
parse_encoding_with_quality_split_all(s) ==
    LET parts    == split(s, ";")
        encoding == trim(parts[1])
        param    == IF Len(parts) >= 2 THEN Some(trim(parts[2])) ELSE None
        parsed   == IF IsSome(param)
                       /\ (starts_with(Unwrap(param), <<"q", "=">>)
                           \/ starts_with(Unwrap(param), <<"Q", "=">>))
                    THEN parse_f32(SubSeq(Unwrap(param), 3, Len(Unwrap(param))))
                    ELSE None
        quality  == IF IsSome(parsed) THEN Unwrap(parsed) ELSE One
    IN  <<encoding, quality>>

\* parse_encoding_with_quality: <<encoding, quality>> of one segment
parse_encoding_with_quality(s) ==
    LET parts    == splitn2(s, ";")
        encoding == trim(parts[1])
        param    == IF Len(parts) = 2 THEN Some(trim(parts[2])) ELSE None
        parsed   == IF IsSome(param)
                       /\ (starts_with(Unwrap(param), <<"q", "=">>)
                           \/ starts_with(Unwrap(param), <<"Q", "=">>))
                    THEN parse_f32(SubSeq(Unwrap(param), 3, Len(Unwrap(param))))
                    ELSE None
        quality  == IF IsSome(parsed) THEN Unwrap(parsed) ELSE One
    IN  <<encoding, quality>>

\* the alias table of from_accept_encoding (codec.rs:76-93)
codec_of_encoding(encoding) ==
    IF encoding = <<"z", "s", "t", "d">> THEN Some("Zstd")
    ELSE IF encoding = <<"b", "r">> \/ encoding = <<"b", "r", "o", "t", "l", "i">> THEN Some("Brotli")
    ELSE IF encoding = <<"g", "z", "i", "p">> \/ encoding = <<"x", "-", "g", "z", "i", "p">> THEN Some("Gzip")
    ELSE IF encoding = <<"d", "e", "f", "l", "a", "t", "e">> THEN Some("Deflate")
    ELSE None

\* the match on best_codec (codec.rs:95-109): the new best after one
\* recognized segment
better(best_codec, codec, quality) ==
    IF best_codec = None THEN Some(<<codec, quality>>)
    ELSE IF F32Gt(quality, Unwrap(best_codec)[2]) THEN Some(<<codec, quality>>)
    ELSE IF F32Eq(quality, Unwrap(best_codec)[2])
            /\ priority(codec) < priority(Unwrap(best_codec)[1])
         THEN Some(<<codec, quality>>)
    ELSE best_codec

\* accept_part without the skip of quality 0
keeps_zero_quality(best_codec, part) ==
    LET eq    == parse_encoding_with_quality(trim(part))
        codec == codec_of_encoding(eq[1])
    IN  IF IsSome(codec) THEN better(best_codec, Unwrap(codec), eq[2])
        ELSE best_codec

\* one iteration of the loop of from_accept_encoding (codec.rs:67-110)
accept_part(best_codec, part) ==
    LET eq    == parse_encoding_with_quality(trim(part))
        codec == codec_of_encoding(eq[1])
    IN  IF F32Eq(eq[2], Zero) THEN best_codec
        ELSE IF IsSome(codec) THEN better(best_codec, Unwrap(codec), eq[2])
        ELSE best_codec

RECURSIVE accept_parts(_, _)
accept_parts(best_codec, parts) ==
    IF parts = <<>> THEN best_codec
    ELSE accept_parts(accept_part(best_codec, Head(parts)), Tail(parts))

\* from_accept_encoding falling back to Gzip when nothing was negotiated
from_accept_encoding_or_gzip(header) ==
    LET best_codec == accept_parts(None, split(header, ","))
    IN  IF IsSome(best_codec) THEN Some(Unwrap(best_codec)[1]) ELSE Some("Gzip")

\* Codec::from_accept_encoding
from_accept_encoding(header) ==
    LET best_codec == accept_parts(None, split(header, ","))
    IN  IF IsSome(best_codec) THEN Some(Unwrap(best_codec)[1]) ELSE None

(***************************************************************************)
(* http::HeaderMap: for each header name the sequence of its values, in    *)
(* insertion order; the empty sequence when the header is absent.          *)
(***************************************************************************)

ACCEPT_RANGES     == "accept-ranges"
CONTENT_ENCODING  == "content-encoding"
CONTENT_LENGTH    == "content-length"
CONTENT_RANGE     == "content-range"
CONTENT_TYPE      == "content-type"
VARY              == "vary"
X_ACCEL_BUFFERING == "x-accel-buffering"
ETAG              == "etag"

HeaderNames == {ACCEPT_RANGES, CONTENT_ENCODING, CONTENT_LENGTH, CONTENT_RANGE,
                CONTENT_TYPE, VARY, X_ACCEL_BUFFERING, ETAG}

NoHeaders == [n \in HeaderNames |-> <<>>]

\* HeaderMap::contains_key
contains_key(headers, name) == headers[name] # <<>>

\* HeaderMap::get: the first value of the header
get(headers, name) ==
    IF headers[name] = <<>> THEN None ELSE Some(headers[name][1])

\* HeaderMap::get_all
get_all(headers, name) == headers[name]

\* HeaderMap::insert: replaces every value of the header
insert(headers, name, value) == [headers EXCEPT ![name] = <<value>>]

\* HeaderMap::remove: removes every value of the header
remove(headers, name) == [headers EXCEPT ![name] = <<>>]

\* HeaderMap::append: adds a value after the header's existing ones
append(headers, name, value) == [headers EXCEPT ![name] = Append(@, value)]

\* headers.get(name).and_then(|v| v.to_str().ok())
get_str(headers, name) ==
    LET v == get(headers, name)
    IN  IF IsSome(v) THEN to_str(Unwrap(v)) ELSE None

(***************************************************************************)
(* future.rs                                                               *)
(***************************************************************************)

\* has_content_encoding
has_content_encoding(headers) == contains_key(headers, CONTENT_ENCODING)

\* has_content_range
has_content_range(headers) == contains_key(headers, CONTENT_RANGE)

\* the closure of add_vary_accept_encoding: some token of one Vary value is
\* "*" or "accept-encoding"
vary_dominated(vary_str) ==
    LET tokens == split(vary_str, ",")
    IN  \E i \in 1..Len(tokens) :
            \/ eq_ignore_ascii_case(trim(tokens[i]), <<"*">>)
            \/ eq_ignore_ascii_case(trim(tokens[i]), <<"a", "c", "c", "e", "p", "t", "-", "e", "n", "c", "o", "d", "i", "n", "g">>)

\* add_vary_accept_encoding
add_vary_accept_encoding(headers) ==
    LET all == get_all(headers, VARY)
    IN  IF \E i \in 1..Len(all) :
              IsSome(to_str(all[i])) /\ vary_dominated(Unwrap(to_str(all[i])))
        THEN headers
        ELSE append(headers, VARY, <<"a", "c", "c", "e", "p", "t", "-", "e", "n", "c", "o", "d", "i", "n", "g">>)

\* is_uncompressible_content_type
is_uncompressible_content_type(headers) ==
    LET content_type == get_str(headers, CONTENT_TYPE)
    IN  IF content_type = None THEN FALSE
        ELSE IF starts_with(Unwrap(content_type), <<"i", "m", "a", "g", "e", "/">>)
        THEN ~starts_with(Unwrap(content_type), <<"i", "m", "a", "g", "e", "/", "s", "v", "g", "+", "x", "m", "l">>)
        ELSE IF starts_with(Unwrap(content_type), <<"a", "p", "p", "l", "i", "c", "a", "t", "i", "o", "n", "/", "g", "r", "p", "c">>)
        THEN ~starts_with(Unwrap(content_type), <<"a", "p", "p", "l", "i", "c", "a", "t", "i", "o", "n", "/", "g", "r", "p", "c", "-", "w", "e", "b">>)
        ELSE FALSE

\* is_streaming_content_type
is_streaming_content_type(headers) ==
    LET ct == get_str(headers, CONTENT_TYPE)
    IN  /\ IsSome(ct)
        /\ \/ starts_with(Unwrap(ct), <<"t", "e", "x", "t", "/", "e", "v", "e", "n", "t", "-", "s", "t", "r", "e", "a", "m">>)
           \/ starts_with(Unwrap(ct), <<"a", "p", "p", "l", "i", "c", "a", "t", "i", "o", "n", "/", "g", "r", "p", "c", "-", "w", "e", "b">>)

\* is_below_min_size with `<=` for `<`
below_or_equal_min_size(headers, min) ==
    LET v   == get_str(headers, CONTENT_LENGTH)
        len == IF IsSome(v) THEN parse_usize(Unwrap(v)) ELSE None
    IN  IsSome(len) /\ Unwrap(len) <= min

\* is_below_min_size
is_below_min_size(headers, min) ==
    LET v   == get_str(headers, CONTENT_LENGTH)
        len == IF IsSome(v) THEN parse_usize(Unwrap(v)) ELSE None
    IN  IsSome(len) /\ Unwrap(len) < min

\* CompressedBody::new (body.rs:59-67) under CompressionBody::compressed
compressed(codec, always_flush) ==
    [kind |-> "Compressed", codec |-> codec, always_flush |-> always_flush,
     state |-> "Reading", pending_trailers |-> None]

\* CompressionBody::passthrough
passthrough == [kind |-> "Passthrough"]

\* the filter of wrap_response (future.rs:58-63): the codec to compress with
dominated_codec(headers, codec, min) ==
    IF /\ IsSome(codec)
       /\ ~has_content_encoding(headers)
       /\ ~has_content_range(headers)
       /\ ~is_uncompressible_content_type(headers)
       /\ ~is_below_min_size(headers, min)
    THEN codec
    ELSE None

\* the always_flush of wrap_response (future.rs:67-72)
always_flush_of(headers) ==
    LET v == get_str(headers, X_ACCEL_BUFFERING)
    IN  \/ IsSome(v) /\ eq_ignore_ascii_case(Unwrap(v), <<"n", "o">>)
        \/ is_streaming_content_type(headers)

\* compressed_headers without the removal of Accept-Ranges
keeps_accept_ranges(headers, codec) ==
    add_vary_accept_encoding(
        remove(insert(headers, CONTENT_ENCODING, content_encoding(codec)),
               CONTENT_LENGTH))

\* the header changes of wrap_response on the compressed path (future.rs:74-87)
compressed_headers(headers, codec) ==
    add_vary_accept_encoding(
        remove(remove(insert(headers, CONTENT_ENCODING, content_encoding(codec)),
                      CONTENT_LENGTH),
               ACCEPT_RANGES))

\* wrap_response adding the Vary value on the passthrough path as well
wrap_response_always_vary(headers, codec, min) ==
    LET chosen == dominated_codec(headers, codec, min)
    IN  IF IsSome(chosen)
        THEN [headers |-> compressed_headers(headers, Unwrap(chosen)),
              body    |-> compressed(Unwrap(chosen), always_flush_of(headers))]
        ELSE [headers |-> add_vary_accept_encoding(headers), body |-> passthrough]

\* wrap_response: the headers and the body of the returned response
wrap_response(headers, codec, min) ==
    LET chosen == dominated_codec(headers, codec, min)
    IN  IF IsSome(chosen)
        THEN [headers |-> compressed_headers(headers, Unwrap(chosen)),
              body    |-> compressed(Unwrap(chosen), always_flush_of(headers))]
        ELSE [headers |-> headers, body |-> passthrough]

(***************************************************************************)
(* layer.rs, service.rs and ResponseFuture                                 *)
(***************************************************************************)

\* DEFAULT_MIN_SIZE
DEFAULT_MIN_SIZE == 860

\* the text of a header value written as a list of comma-separated segments
RECURSIVE join(_)
join(list) ==
    IF list = <<>> THEN <<>>
    ELSE IF Len(list) = 1 THEN list[1]
    ELSE list[1] \o <<",">> \o join(Tail(list))

\* CompressionService::call: the codec negotiated from the request's first
\* Accept-Encoding header, None when it is absent or not visible ASCII
negotiate(accept_encoding) ==
    LET v == IF IsSome(accept_encoding) THEN to_str(Unwrap(accept_encoding)) ELSE None
    IN  IF IsSome(v) THEN from_accept_encoding(Unwrap(v)) ELSE None

\* the request's Accept-Encoding header value, if any
accept_encoding_of(segs) ==
    IF IsSome(segs) THEN Some(join(Unwrap(segs))) ELSE None

\* CompressionService::call
Call ==
    /\ pc = "start"
    /\ accepted_codec' = negotiate(accept_encoding_of(segments))
    /\ pc' = "called"
    /\ UNCHANGED <<segments, min_size, response, wrapped>>
    /\ UNCHANGED bodyvars

\* ResponseFuture::poll, the inner future is not ready
PollPending ==
    /\ pc = "called"
    /\ UNCHANGED vars

\* ResponseFuture::poll, the inner future fails
PollErr ==
    /\ pc = "called"
    /\ ~response.ok
    /\ wrapped' = Some([ok |-> FALSE])
    /\ pc' = "failed"
    /\ UNCHANGED <<segments, min_size, accepted_codec, response>>
    /\ UNCHANGED bodyvars

\* ResponseFuture::poll, the inner future yields a response
PollOk ==
    /\ pc = "called"
    /\ response.ok
    /\ wrapped' = Some([ok |-> TRUE] @@ wrap_response(response.headers, accepted_codec, min_size))
    /\ pc' = "ready"
    /\ UNCHANGED <<segments, min_size, accepted_codec, response>>
    /\ UNCHANGED bodyvars

Next == Call \/ PollPending \/ PollErr \/ PollOk

(***************************************************************************)
(* body.rs: CompressionBody                                                *)
(*                                                                         *)
(* A data buffer of the inner body is a sequence of chunks, a chunk a      *)
(* sequence of bytes.  The encoder is outside the crate: each of its calls *)
(* may fail, consume any part of the input it is given and write any       *)
(* amount the output buffer can hold.  The bytes the encoder writes are    *)
(* kept as runs: `len` bytes written by the encoder's `call`-th writing    *)
(* call; the zeros the output buffer is created with are the run of call 0.*)
(***************************************************************************)

\* OUTPUT_BUFFER_SIZE
OUTPUT_BUFFER_SIZE == 8 * 1024

\* CompressState
CompressState == {"Reading", "Finishing", "Trailers", "Done"}

\* Frame::data and Frame::trailers of the inner body
Frame_data(data) == [type |-> "data", data |-> data]

Frame_trailers(trailers) == [type |-> "trailers", trailers |-> trailers]

\* Frame::data of a compressed body: `bytes` are runs of encoder output
Frame_compressed(bytes) == [type |-> "data", bytes |-> bytes]

\* the values of Poll<Option<Result<Frame, io::Error>>>
Pending == [poll |-> "Pending", value |-> None]

Ready(value) == [poll |-> "Ready", value |-> value]

FrameOk(frame) == Some([ok |-> TRUE, frame |-> frame])

Err(error) == Some([ok |-> FALSE, error |-> error])

\* the frame a poll result carries, if any
frame_of(r) ==
    IF r.poll = "Ready" /\ IsSome(r.value) /\ Unwrap(r.value).ok
    THEN Some(Unwrap(r.value).frame)
    ELSE None

\* what the inner body yields: a frame or an error
InnerError == [type |-> "error"]

\* collect_bytes: the bytes of Buf::chunk(), the first chunk of the buffer
collect_bytes(data) ==
    IF data = <<>> THEN <<>> ELSE data[1]

\* the closure of map_data on the passthrough path: every chunk, in order
RECURSIVE copy_chunks(_)
copy_chunks(data) ==
    IF data = <<>> THEN <<>> ELSE data[1] \o copy_chunks(Tail(data))

\* vec![0u8; OUTPUT_BUFFER_SIZE]
NewOutputBuffer == << [call |-> 0, len |-> OUTPUT_BUFFER_SIZE] >>

\* the whole buffer instead of its first n bytes
slice_whole(runs, n) == runs

\* &buffer[..n]
RECURSIVE slice_to(_, _)
slice_to(runs, n) ==
    IF n = 0 \/ runs = <<>> THEN <<>>
    ELSE IF runs[1].len <= n THEN <<runs[1]>> \o slice_to(Tail(runs), n - runs[1].len)
    ELSE << [runs[1] EXCEPT !.len = n] >>

\* &buffer[n..]
RECURSIVE slice_from(_, _)
slice_from(runs, n) ==
    IF n = 0 \/ runs = <<>> THEN runs
    ELSE IF runs[1].len <= n THEN slice_from(Tail(runs), n - runs[1].len)
    ELSE << [runs[1] EXCEPT !.len = @ - n] >> \o Tail(runs)

\* WriteBuffer::new_initialized(buffer) after the encoder's `call`-th
\* writing call wrote `written` bytes: the rest of the buffer is left as
\* it was
write_buffer(buffer, call, written) ==
    IF written = 0 THEN buffer
    ELSE << [call |-> call, len |-> written] >> \o slice_from(buffer, written)

\* PartialBuffer::new(input)
PartialBuffer(input) == [buffer |-> input, written_len |-> 0]

\* no compress_chunk is running
NoInput == PartialBuffer(<<>>)

\* codec.encoder(): nothing consumed, no call failed, not broken, no call
\* held back, nothing written, finish not called, finish not done
NewEncoder == [fed |-> 0, failed |-> FALSE, broken |-> FALSE, stalls |-> 0,
               taken |-> <<>>, output |-> <<>>, finishing |-> FALSE, finished |-> FALSE]

\* the number the encoder's next writing call has
next_call(e) == Len(e.output) + 1

\* what the encoder has written, after a call that wrote `written` bytes
wrote(e, written) ==
    IF written = 0 THEN e.output
    ELSE Append(e.output, [call |-> next_call(e), len |-> written])

\* most calls in which the encoder holds back: an encode that consumes
\* nothing of a non-empty input, a flush or a finish that is not done
MaxStall == 1

\* what one encoder call writes into the output buffer: nothing, or all
\* the buffer holds
Writes == {0, OUTPUT_BUFFER_SIZE}

\* EncodeV2::encode on `left` bytes of input: an error, which may leave the
\* encoder broken so that every later call fails too, or some of the input
\* consumed and some output written
EncodeOutcomes(e, left) ==
    IF e.broken THEN { [ok |-> FALSE, broken |-> TRUE, consumed |-> 0, written |-> 0] }
    ELSE { [ok |-> FALSE, broken |-> b, consumed |-> 0, written |-> 0] : b \in BOOLEAN } \cup
         { [ok |-> TRUE, broken |-> FALSE, consumed |-> k, written |-> w] :
             k \in (IF e.stalls < MaxStall \/ left = 0 THEN 0 ELSE 1)..left, w \in Writes }

\* EncodeV2::flush and EncodeV2::finish: an error, which may leave the
\* encoder broken, or some output written and whether the encoder has
\* nothing more to write
DrainOutcomes(e) ==
    IF e.broken THEN { [ok |-> FALSE, broken |-> TRUE, written |-> 0, done |-> FALSE] }
    ELSE { [ok |-> FALSE, broken |-> b, written |-> 0, done |-> FALSE] : b \in BOOLEAN } \cup
         { [ok |-> TRUE, broken |-> FALSE, written |-> w, done |-> d] :
             w \in Writes, d \in (IF e.stalls < MaxStall THEN BOOLEAN ELSE {TRUE}) }

\* the encoder after an encode call with outcome o on `left` bytes
encoded(e, o, left) ==
    IF ~o.ok THEN [e EXCEPT !.failed = TRUE, !.broken = o.broken]
    ELSE [e EXCEPT !.fed = @ + o.consumed,
                   !.stalls = IF o.consumed = 0 /\ left > 0 THEN @ + 1 ELSE @,
                   !.output = wrote(e, o.written)]

\* the encoder after it consumed `bytes` of its input
took(e, bytes) == [e EXCEPT !.taken = @ \o bytes]

\* the encoder after a flush or finish call with outcome o
drained(e, o) ==
    IF ~o.ok THEN [e EXCEPT !.failed = TRUE, !.broken = o.broken]
    ELSE [e EXCEPT !.stalls = IF o.done THEN @ ELSE @ + 1,
                   !.output = wrote(e, o.written)]

\* the encoder after a finish call with outcome o
finish_called(e, o) ==
    [drained(e, o) EXCEPT !.finishing = TRUE, !.finished = o.ok /\ o.done]

\* the Trailers branch leaving the trailers stored and the state as it is
leave_trailers(b) ==
    [b EXCEPT !.state = "Trailers"]

\* CompressedBody, Trailers branch: take the trailers, move to Done
take_trailers(b) ==
    [b EXCEPT !.pending_trailers = None, !.state = "Done"]

\* the Finishing branch going straight to Done once the encoder is done
finished_done(b) ==
    [b EXCEPT !.state = "Done"]

\* the Finishing branch going back to Reading once the encoder is done
finished_reading(b) ==
    [b EXCEPT !.state = IF IsSome(b.pending_trailers) THEN "Trailers" ELSE "Reading"]

\* the Finishing branch staying in Finishing once the encoder is done
finished_finishing(b) ==
    [b EXCEPT !.state = "Finishing"]

\* CompressedBody, Finishing branch once the encoder is done
finished(b) ==
    [b EXCEPT !.state = IF IsSome(b.pending_trailers) THEN "Trailers" ELSE "Done"]

\* the Reading branch staying in Reading when the inner body is exhausted
inner_done_reading(b) ==
    [b EXCEPT !.state = "Reading"]

\* CompressedBody, Reading branch when the inner body is exhausted
inner_done(b) ==
    [b EXCEPT !.state = "Finishing"]

\* the Reading branch on a trailers frame going straight to Trailers
buffer_trailers_unfinished(b, trailers) ==
    [b EXCEPT !.pending_trailers = Some(trailers), !.state = "Trailers"]

\* CompressedBody, Reading branch on a trailers frame
buffer_trailers(b, trailers) ==
    [b EXCEPT !.pending_trailers = Some(trailers), !.state = "Finishing"]

\* the end of compress_chunk returning a frame whatever was collected
chunk_result_any(all) ==
    Ready(FrameOk(Frame_compressed(all)))

\* the end of compress_chunk: Pending when nothing was collected
chunk_result(all) ==
    IF all = <<>> THEN Pending ELSE Ready(FrameOk(Frame_compressed(all)))

\* map_data copying the first chunk only
map_data_first_chunk(frame) ==
    IF frame.type = "data" THEN Frame_data(collect_bytes(frame.data)) ELSE frame

\* the passthrough path's frame.map_data
map_data(frame) ==
    IF frame.type = "data" THEN Frame_data(copy_chunks(frame.data)) ELSE frame

\* poll_frame is entered, or poll_compressed is at the top of its loop
InLoop == pull \in {"idle", "loop"}

\* the calls of this poll_frame, `op` being the latest
Called(op) == IF pull = "idle" THEN {op} ELSE calls \cup {op}

\* poll_frame returns r
Return(r) ==
    /\ result' = Some(r)
    /\ emitted' = IF IsSome(frame_of(r)) THEN Append(emitted, Unwrap(frame_of(r))) ELSE emitted
    /\ pull' = "idle"
    /\ pulls' = (pulls + 1) % 2
    /\ input_buf' = NoInput
    /\ all_output' = <<>>

\* poll_compressed goes round its loop once more
Continue ==
    /\ pull' = "loop"
    /\ UNCHANGED <<result, emitted, pulls, input_buf, all_output>>

IsCompressedBody == IsSome(stream) /\ Unwrap(stream).kind = "Compressed"

IsPassthroughBody == IsSome(stream) /\ Unwrap(stream).kind = "Passthrough"

\* CompressedBody::state
state == Unwrap(stream).state

\* the inner body has yielded everything
Exhausted == inner.pos = Len(inner.frames)

\* what the inner body yields next
NextFrame == inner.frames[inner.pos + 1]

\* state Done polling the inner body before it reports exhaustion
PollDonePolling ==
    /\ IsCompressedBody /\ InLoop /\ state = "Done"
    /\ calls' = Called("poll_frame")
    /\ Return(Ready(None))
    /\ UNCHANGED <<stream, inner, enc, output_buffer>>
    /\ UNCHANGED svcvars

\* poll_compressed, state Done
PollDone ==
    /\ IsCompressedBody /\ InLoop /\ state = "Done"
    /\ calls' = (IF pull = "idle" THEN {} ELSE calls)
    /\ Return(Ready(None))
    /\ UNCHANGED <<stream, inner, enc, output_buffer>>
    /\ UNCHANGED svcvars

\* poll_compressed, state Trailers
PollTrailers ==
    /\ IsCompressedBody /\ InLoop /\ state = "Trailers"
    /\ calls' = (IF pull = "idle" THEN {} ELSE calls)
    /\ stream' = Some(take_trailers(Unwrap(stream)))
    /\ IF IsSome(Unwrap(stream).pending_trailers)
       THEN Return(Ready(FrameOk(Frame_trailers(Unwrap(Unwrap(stream).pending_trailers)))))
       ELSE Return(Ready(None))
    /\ UNCHANGED <<inner, enc, output_buffer>>
    /\ UNCHANGED svcvars

\* state Finishing leaving the state after the first finish call that
\* succeeds, done or not
PollFinishingOnce ==
    /\ IsCompressedBody /\ InLoop /\ state = "Finishing"
    /\ calls' = Called("finish")
    /\ \E o \in DrainOutcomes(enc) :
          /\ enc' = finish_called(enc, o)
          /\ output_buffer' = write_buffer(output_buffer, next_call(enc), o.written)
          /\ IF ~o.ok
             THEN /\ Return(Ready(Err("encoder")))
                  /\ UNCHANGED stream
             ELSE IF o.written > 0
             THEN /\ stream' = Some(finished(Unwrap(stream)))
                  /\ Return(Ready(FrameOk(Frame_compressed(slice_to(output_buffer', o.written)))))
             ELSE /\ stream' = Some(finished(Unwrap(stream)))
                  /\ Continue
    /\ UNCHANGED inner
    /\ UNCHANGED svcvars

\* poll_compressed, state Finishing: one call of encoder.finish
PollFinishing ==
    /\ IsCompressedBody /\ InLoop /\ state = "Finishing"
    /\ calls' = Called("finish")
    /\ \E o \in DrainOutcomes(enc) :
          /\ enc' = finish_called(enc, o)
          /\ output_buffer' = write_buffer(output_buffer, next_call(enc), o.written)
          /\ IF ~o.ok
             THEN /\ Return(Ready(Err("encoder")))
                  /\ UNCHANGED stream
             ELSE IF o.written > 0
             THEN /\ stream' = (IF o.done THEN Some(finished(Unwrap(stream))) ELSE stream)
                  /\ Return(Ready(FrameOk(Frame_compressed(slice_to(output_buffer', o.written)))))
             ELSE /\ stream' = (IF o.done THEN Some(finished(Unwrap(stream))) ELSE stream)
                  /\ Continue
    /\ UNCHANGED inner
    /\ UNCHANGED svcvars

\* poll_compressed, state Reading: the inner body is not ready
PollReadingPending ==
    /\ IsCompressedBody /\ InLoop /\ state = "Reading"
    /\ calls' = Called("poll_frame")
    /\ inner' = [inner EXCEPT !.waker = TRUE]
    /\ Return(Pending)
    /\ UNCHANGED <<stream, enc, output_buffer>>
    /\ UNCHANGED svcvars

\* poll_compressed, state Reading: the inner body is exhausted, fails, or
\* yields a frame
PollReading ==
    /\ IsCompressedBody /\ InLoop /\ state = "Reading"
    /\ calls' = Called("poll_frame")
    /\ IF Exhausted
       THEN /\ stream' = Some(inner_done(Unwrap(stream)))
            /\ Continue
            /\ inner' = [inner EXCEPT !.waker = FALSE]
       ELSE /\ inner' = [inner EXCEPT !.pos = @ + 1, !.waker = FALSE]
            /\ IF NextFrame = InnerError
               THEN /\ Return(Ready(Err("inner")))
                    /\ UNCHANGED stream
               ELSE IF NextFrame.type = "data"
               THEN /\ input_buf' = PartialBuffer(collect_bytes(NextFrame.data))
                    /\ all_output' = <<>>
                    /\ pull' = "encode"
                    /\ UNCHANGED <<stream, result, emitted, pulls>>
               ELSE /\ stream' = Some(buffer_trailers(Unwrap(stream), NextFrame.trailers))
                    /\ Continue
    /\ UNCHANGED <<enc, output_buffer>>
    /\ UNCHANGED svcvars

\* compress_chunk after its encode loop going to the flush loop whatever
\* always_flush is
AfterEncodeFlushing(all) ==
    /\ pull' = "flush"
    /\ all_output' = all
    /\ UNCHANGED <<result, emitted, pulls, input_buf>>

\* compress_chunk after its encode loop: the flush loop when always_flush
\* is set, the result otherwise
AfterEncode(all) ==
    IF Unwrap(stream).always_flush
    THEN /\ pull' = "flush"
         /\ all_output' = all
         /\ UNCHANGED <<result, emitted, pulls, input_buf>>
    ELSE Return(chunk_result(all))

\* the encode loop putting what a call wrote before what was collected
EncodePrepending ==
    /\ pull = "encode"
    /\ calls' = Called("encode")
    /\ LET left == Len(input_buf.buffer) - input_buf.written_len
       IN  \E o \in EncodeOutcomes(enc, left) :
             /\ enc' = took(encoded(enc, o, left),
                             SubSeq(input_buf.buffer, input_buf.written_len + 1,
                                    input_buf.written_len + o.consumed))
             /\ output_buffer' = write_buffer(output_buffer, next_call(enc), o.written)
             /\ IF ~o.ok
                THEN Return(Ready(Err("encoder")))
                ELSE LET consumed == input_buf.written_len + o.consumed
                         collected == slice_to(output_buffer', o.written) \o all_output
                     IN  IF consumed >= Len(input_buf.buffer)
                            \/ (o.written = 0 /\ consumed = 0)
                         THEN AfterEncode(collected)
                         ELSE /\ input_buf' = [input_buf EXCEPT !.written_len = consumed]
                              /\ all_output' = collected
                              /\ UNCHANGED <<pull, result, emitted, pulls>>
    /\ UNCHANGED <<stream, inner>>
    /\ UNCHANGED svcvars

\* compress_chunk, one turn of the encode loop
Encode ==
    /\ pull = "encode"
    /\ calls' = Called("encode")
    /\ LET left == Len(input_buf.buffer) - input_buf.written_len
       IN  \E o \in EncodeOutcomes(enc, left) :
             /\ enc' = took(encoded(enc, o, left),
                             SubSeq(input_buf.buffer, input_buf.written_len + 1,
                                    input_buf.written_len + o.consumed))
             /\ output_buffer' = write_buffer(output_buffer, next_call(enc), o.written)
             /\ IF ~o.ok
                THEN Return(Ready(Err("encoder")))
                ELSE LET consumed == input_buf.written_len + o.consumed
                         collected == all_output \o slice_to(output_buffer', o.written)
                     IN  IF consumed >= Len(input_buf.buffer)
                            \/ (o.written = 0 /\ consumed = 0)
                         THEN AfterEncode(collected)
                         ELSE /\ input_buf' = [input_buf EXCEPT !.written_len = consumed]
                              /\ all_output' = collected
                              /\ UNCHANGED <<pull, result, emitted, pulls>>
    /\ UNCHANGED <<stream, inner>>
    /\ UNCHANGED svcvars

\* compress_chunk, one turn of the flush loop
Flush ==
    /\ pull = "flush"
    /\ calls' = Called("flush")
    /\ \E o \in DrainOutcomes(enc) :
          /\ enc' = drained(enc, o)
          /\ output_buffer' = write_buffer(output_buffer, next_call(enc), o.written)
          /\ IF ~o.ok
             THEN Return(Ready(Err("encoder")))
             ELSE IF o.done
             THEN Return(chunk_result(all_output \o slice_to(output_buffer', o.written)))
             ELSE /\ all_output' = all_output \o slice_to(output_buffer', o.written)
                  /\ UNCHANGED <<pull, result, emitted, pulls, input_buf>>
    /\ UNCHANGED <<stream, inner>>
    /\ UNCHANGED svcvars

\* poll_frame of a passthrough body: the inner body is not ready
PollPassthroughPending ==
    /\ IsPassthroughBody /\ pull = "idle"
    /\ calls' = Called("poll_frame")
    /\ inner' = [inner EXCEPT !.waker = TRUE]
    /\ Return(Pending)
    /\ UNCHANGED <<stream, enc, output_buffer>>
    /\ UNCHANGED svcvars

\* poll_frame of a passthrough body: the inner body is exhausted, fails,
\* or yields a frame
PollPassthrough ==
    /\ IsPassthroughBody /\ pull = "idle"
    /\ calls' = Called("poll_frame")
    /\ IF Exhausted
       THEN /\ Return(Ready(None))
            /\ inner' = [inner EXCEPT !.waker = FALSE]
       ELSE /\ inner' = [inner EXCEPT !.pos = @ + 1, !.waker = FALSE]
            /\ IF NextFrame = InnerError
               THEN Return(Ready(Err("inner")))
               ELSE Return(Ready(FrameOk(map_data(NextFrame))))
    /\ UNCHANGED <<stream, enc, output_buffer>>
    /\ UNCHANGED svcvars

NextBody ==
    \/ PollDone \/ PollTrailers \/ PollFinishing
    \/ PollReadingPending \/ PollReading
    \/ Encode \/ Flush
    \/ PollPassthroughPending \/ PollPassthrough

(***************************************************************************)
(* Inputs                                                                  *)
(***************************************************************************)

\* most segments of one Accept-Encoding header
MaxSegs == 3

\* most headers present on one response
MaxHeaders == 3

\* Accept-Encoding segments: recognized tokens and aliases, equal and
\* different qualities, zero, NaN, stray blanks, an upper-case Q, an unknown
\* token, a malformed and an empty segment, a byte that is not visible ASCII
SegmentTexts ==
    { <<"g", "z", "i", "p">>, <<"b", "r", ";", "q", "=", "0", ".", "5">>, <<"z", "s", "t", "d", ";", "q", "=", "0", ".", "5">>, <<"g", "z", "i", "p", ";", "q", "=", "0">>, <<" ", "x", "-", "g", "z", "i", "p", " ", ";", " ", "Q", "=", "0", ".", "8", " ">>,
      <<"d", "e", "f", "l", "a", "t", "e", ";", "q", "=", "1", ".", "0">>, <<"i", "d", "e", "n", "t", "i", "t", "y", ";", "q", "=", "0", ".", "9">>, <<";", "q", "=", "x">>, <<>>, <<"b", "r", ";", "q", "=", "N", "a", "N">>, <<OBS>> }

RECURSIVE SeqsUpTo(_, _)
SeqsUpTo(S, n) ==
    IF n = 0 THEN {<<>>}
    ELSE LET shorter == SeqsUpTo(S, n - 1)
         IN  shorter \cup {Append(s, x) : s \in shorter, x \in S}

SegLists == SeqsUpTo(SegmentTexts, MaxSegs)

Ok(headers) == [ok |-> TRUE, headers |-> headers]

Failed == [ok |-> FALSE, headers |-> NoHeaders]

ValueOptions ==
    [n \in HeaderNames |->
        CASE n = CONTENT_ENCODING -> { <<<<"i", "d", "e", "n", "t", "i", "t", "y">>>> }
          [] n = CONTENT_RANGE -> { <<<<"b", "y", "t", "e", "s", " ", "0", "-", "1", "/", "9">>>> }
          [] n = ACCEPT_RANGES -> { <<<<"b", "y", "t", "e", "s">>>> }
          [] n = ETAG -> { <<<<"v", "1">>>> }
          [] n = CONTENT_TYPE ->
                { <<<<"i", "m", "a", "g", "e", "/", "p", "n", "g">>>>, <<<<"i", "m", "a", "g", "e", "/", "s", "v", "g">>>>, <<<<"i", "m", "a", "g", "e", "/", "s", "v", "g", "+", "x", "m", "l">>>>,
                  <<<<"i", "m", "a", "g", "e", "/", "s", "v", "g", "+", "x", "m", "l", ";", " ", "c", "h", "a", "r", "s", "e", "t", "=", "u", "t", "f", "-", "8">>>>, <<<<"I", "M", "A", "G", "E", "/", "P", "N", "G">>>>,
                  <<<<"a", "p", "p", "l", "i", "c", "a", "t", "i", "o", "n", "/", "g", "r", "p", "c">>>>, <<<<"a", "p", "p", "l", "i", "c", "a", "t", "i", "o", "n", "/", "g", "r", "p", "c", "+", "p", "r", "o", "t", "o">>>>,
                  <<<<"a", "p", "p", "l", "i", "c", "a", "t", "i", "o", "n", "/", "g", "r", "p", "c", "-", "w", "e", "b">>>>, <<<<"a", "p", "p", "l", "i", "c", "a", "t", "i", "o", "n", "/", "g", "r", "p", "c", "-", "w", "e", "b", "+", "p", "r", "o", "t", "o">>>>,
                  <<<<"t", "e", "x", "t", "/", "e", "v", "e", "n", "t", "-", "s", "t", "r", "e", "a", "m">>>>, <<<<"t", "e", "x", "t", "/", "h", "t", "m", "l">>>>,
                  <<<<"i", "m", "a", "g", "e", "/", "p", "n", "g", OBS>>>>, <<<<"t", "e", "x", "t", "/", "e", "v", "e", "n", "t", "-", "s", "t", "r", "e", "a", "m", OBS>>>> }
          [] n = CONTENT_LENGTH ->
                { <<<<"9">>>>, <<<<"1", "0">>>>, <<<<"1", "1">>>>, <<<<"+", "9">>>>, <<<<"9", " ">>>>,
                  <<<<"a", "b", "c">>>>, <<<<"9", OBS>>>>, <<<<"1", "1">>, <<"9">>>> }
          [] n = VARY ->
                { <<<<"*">>>>, <<<<"a", "c", "c", "e", "p", "t", "-", "e", "n", "c", "o", "d", "i", "n", "g">>>>, <<<<"o", "r", "i", "g", "i", "n">>>>,
                  <<<<"o", "r", "i", "g", "i", "n", ",", " ", "A", "c", "c", "e", "p", "t", "-", "E", "n", "c", "o", "d", "i", "n", "g">>>>, <<<<"o", "r", "i", "g", "i", "n", ",", "*">>>>,
                  <<<<"a", "c", "c", "e", "p", "t", "-", "e", "n", "c", "o", "d", "i", "n", "g", "s">>>>, <<<<"o", "r", "i", "g", "i", "n">>, <<"a", "c", "c", "e", "p", "t", "-", "l", "a", "n", "g", "u", "a", "g", "e">>>>,
                  <<<<"o", "r", "i", "g", "i", "n">>, <<"x", ",", " ", "A", "C", "C", "E", "P", "T", "-", "E", "N", "C", "O", "D", "I", "N", "G", " ", ",", "y">>>>,
                  <<<<"a", "c", "c", "e", "p", "t", "-", "e", "n", "c", "o", "d", "i", "n", "g", ",", OBS>>>> }
          [] n = X_ACCEL_BUFFERING ->
                { <<<<"n", "o">>>>, <<<<"N", "O">>>>, <<<<"y", "e", "s">>>>, <<<<"n", "o", " ">>>>, <<<<OBS>>>>,
                  <<<<"y", "e", "s">>, <<"n", "o">>>> } ]

\* the header maps over `names` with at most k headers present
RECURSIVE HeaderMaps(_, _)
HeaderMaps(names, k) ==
    IF names = {} THEN {NoHeaders}
    ELSE LET n    == CHOOSE x \in names : TRUE
             rest == names \ {n}
         IN  HeaderMaps(rest, k) \cup
             (IF k = 0 THEN {}
              ELSE {[h EXCEPT ![n] = v] : h \in HeaderMaps(rest, k - 1),
                                          v \in ValueOptions[n]})

ResponseHeaders == HeaderMaps(HeaderNames, MaxHeaders)

\* configured thresholds: none, and one the enumerated Content-Lengths straddle
MinSizes == {0, 10}

\* requests of the response specification: no header, one codec, no codec,
\* two codecs of equal quality
WrapRequests ==
    { None, Some(<<<<"g", "z", "i", "p">>>>), Some(<<<<"i", "d", "e", "n", "t", "i", "t", "y">>>>),
      Some(<<<<"b", "r", ";", "q", "=", "0", ".", "5">>, <<"z", "s", "t", "d", ";", "q", "=", "0", ".", "5">>>>) }

\* responses of the negotiation specification
NegotiateResponses ==
    { Failed, Ok(NoHeaders),
      Ok([NoHeaders EXCEPT ![CONTENT_TYPE] = <<<<"i", "m", "a", "g", "e", "/", "p", "n", "g">>>>]),
      Ok([NoHeaders EXCEPT ![CONTENT_LENGTH] = <<<<"1", "1">>>>, ![VARY] = <<<<"o", "r", "i", "g", "i", "n">>>>]) }

\* no body is being pulled
NoBody ==
    /\ stream = None
    /\ inner = [frames |-> <<>>, pos |-> 0, waker |-> FALSE]
    /\ pull = "idle"
    /\ result = None
    /\ calls = {}
    /\ input_buf = NoInput
    /\ all_output = <<>>
    /\ enc = NewEncoder
    /\ output_buffer = NewOutputBuffer
    /\ emitted = <<>>
    /\ pulls = 0

InitCommon ==
    /\ pc = "start"
    /\ accepted_codec = None
    /\ wrapped = None
    /\ NoBody

\* every enumerated Accept-Encoding header, a few responses
InitNegotiate ==
    /\ InitCommon
    /\ segments \in {None} \cup {Some(s) : s \in SegLists}
    /\ min_size = DEFAULT_MIN_SIZE
    /\ response \in NegotiateResponses

\* a few requests, every enumerated response
InitWrap ==
    /\ InitCommon
    /\ segments \in WrapRequests
    /\ min_size \in MinSizes
    /\ response \in {Failed} \cup {Ok(h) : h \in ResponseHeaders}

SpecNegotiate == InitNegotiate /\ [][Next]_vars

SpecWrap == InitWrap /\ [][Next]_vars

\* segments for the parsing of one segment: no parameter, q= and Q=, blanks
\* around token and parameter, a parameter after the quality, a parameter
\* before it, no number, a blank before the number, above 1, negative,
\* zero, an empty parameter, q= alone, no token, 1.0, infinity
ParseTexts ==
    { <<"g", "z", "i", "p">>, <<"b", "r", ";", "q", "=", "0", ".", "5">>, <<"z", "s", "t", "d", ";", "Q", "=", "0", ".", "8">>,
      <<" ", "d", "e", "f", "l", "a", "t", "e", " ", ";", " ", "q", "=", "0", ".", "3", " ">>, <<"g", "z", "i", "p", ";", "q", "=", "0", ".", "5", ";", "x", "=", "1">>, <<"b", "r", ";", "x", "=", "1", ";", "q", "=", "0", ".", "9">>,
      <<"g", "z", "i", "p", ";", "q", "=", "x">>, <<"z", "s", "t", "d", ";", "q", "=", " ", "0", ".", "5">>, <<"d", "e", "f", "l", "a", "t", "e", ";", "q", "=", "5">>,
      <<"g", "z", "i", "p", ";", "q", "=", "-", "1">>, <<"b", "r", ";", "q", "=", "0">>, <<"z", "s", "t", "d", ";">>,
      <<"g", "z", "i", "p", ";", "q", "=">>, <<";", "q", "=", "0", ".", "5">>, <<"d", "e", "f", "l", "a", "t", "e", ";", "q", "=", "1", ".", "0">>,
      <<"b", "r", ";", "q", "=", "i", "n", "f">> }

\* every header of two of these segments, a few responses
InitParse ==
    /\ InitCommon
    /\ segments \in {Some(<<a, b>>) : a \in ParseTexts, b \in ParseTexts}
    /\ min_size = DEFAULT_MIN_SIZE
    /\ response \in NegotiateResponses

SpecParse == InitParse /\ [][Next]_vars

\* most frames and errors one inner body yields
MaxFrames == 2

\* data buffers: empty, one chunk of two bytes, two chunks of one byte
Buffers ==
    { <<>>, <<<<"a", "b">>>>, <<<<"c">>, <<"d">>>> }

\* trailer sets: empty, and one header
TrailerMaps ==
    { NoHeaders, [NoHeaders EXCEPT ![ETAG] = <<<<"v", "1">>>>] }

\* what an inner body yields before its trailers
InnerItems == {Frame_data(d) : d \in Buffers} \cup {InnerError}

\* inner bodies: data frames and errors, then trailers or nothing
InnerBodies ==
    LET heads == SeqsUpTo(InnerItems, MaxFrames)
    IN  heads \cup
        { Append(h, Frame_trailers(t)) :
            h \in SeqsUpTo(InnerItems, MaxFrames - 1), t \in TrailerMaps }

\* the bodies wrap_response builds, for one codec
Bodies ==
    {passthrough} \cup {compressed("Gzip", f) : f \in BOOLEAN}

\* a response has been wrapped and its body is about to be pulled
InitBody ==
    /\ pc = "ready"
    /\ segments = None
    /\ min_size = DEFAULT_MIN_SIZE
    /\ accepted_codec = None
    /\ response = Ok(NoHeaders)
    /\ wrapped = None
    /\ stream \in {Some(b) : b \in Bodies}
    /\ inner \in {[frames |-> f, pos |-> 0, waker |-> FALSE] : f \in InnerBodies}
    /\ pull = "idle"
    /\ result = None
    /\ calls = {}
    /\ input_buf = NoInput
    /\ all_output = <<>>
    /\ enc = NewEncoder
    /\ output_buffer = NewOutputBuffer
    /\ emitted = <<>>
    /\ pulls = 0

SpecBody == InitBody /\ [][NextBody]_vars

\* the caller keeps pulling, every pull runs to its return, and the inner
\* body does not stay pending for ever
FairBody ==
    /\ WF_vars(PollDone) /\ WF_vars(PollTrailers) /\ WF_vars(PollFinishing)
    /\ WF_vars(PollReading) /\ WF_vars(Encode) /\ WF_vars(Flush)
    /\ WF_vars(PollPassthrough)

SpecBodyFair == InitBody /\ [][NextBody]_vars /\ FairBody

(***************************************************************************)
(* Negotiation: what the claims speak of                                   *)
(***************************************************************************)

\* the alias table as the specification gives it: token, codec
Aliases ==
    { <<<<"z", "s", "t", "d">>, "Zstd">>, <<<<"b", "r">>, "Brotli">>, <<<<"b", "r", "o", "t", "l", "i">>, "Brotli">>,
      <<<<"g", "z", "i", "p">>, "Gzip">>, <<<<"x", "-", "g", "z", "i", "p">>, "Gzip">>, <<<<"d", "e", "f", "l", "a", "t", "e">>, "Deflate">> }

\* Zstd before Brotli before Gzip before Deflate
RankOrder == <<"Zstd", "Brotli", "Gzip", "Deflate">>

Rank(c) == CHOOSE i \in 1..4 : RankOrder[i] = c

\* the codec a segment names, if it names one
NamedCodec(seg) ==
    LET token == parse_encoding_with_quality(trim(seg))[1]
    IN  IF \E a \in Aliases : a[1] = token
        THEN Some((CHOOSE a \in Aliases : a[1] = token)[2])
        ELSE None

\* the resolved quality of a segment
Quality(seg) == parse_encoding_with_quality(trim(seg))[2]

IsZeroQuality(q) == q.kind = "num" /\ q.n = 0

\* f32 `>=`
F32Ge(a, b) == F32Gt(a, b) \/ F32Eq(a, b)

\* the segments that name a recognized codec with nonzero quality
Candidates(segs) ==
    {i \in 1..Len(segs) : IsSome(NamedCodec(segs[i])) /\ ~IsZeroQuality(Quality(segs[i]))}

\* the header reached from_accept_encoding: it is present and visible ASCII
Negotiated ==
    /\ pc = "called"
    /\ IsSome(segments)
    /\ IsSome(to_str(join(Unwrap(segments))))

UnrecognizedTexts ==
    {s \in SegmentTexts : IsSome(to_str(s)) /\ NamedCodec(s) = None}

InsertAt(segs, k, u) ==
    SubSeq(segs, 1, k) \o <<u>> \o SubSeq(segs, k + 1, Len(segs))

RECURSIVE WithoutUnrecognized(_)
WithoutUnrecognized(segs) ==
    IF segs = <<>> THEN <<>>
    ELSE IF NamedCodec(Head(segs)) = None THEN WithoutUnrecognized(Tail(segs))
    ELSE <<Head(segs)>> \o WithoutUnrecognized(Tail(segs))

\* a is at least b as a quality; NaN, which is no number, is below every number
AtLeast(a, b) == b.kind = "nan" \/ F32Ge(a, b)

SameQuality(a, b) == AtLeast(a, b) /\ AtLeast(b, a)

\* segment i carries the highest quality of the candidates, and the lowest
\* rank among those that share it
IsBest(segs, i) ==
    \A j \in Candidates(segs) \ {i} :
        /\ AtLeast(Quality(segs[i]), Quality(segs[j]))
        /\ SameQuality(Quality(segs[j]), Quality(segs[i]))
              => Rank(Unwrap(NamedCodec(segs[i]))) <= Rank(Unwrap(NamedCodec(segs[j])))

SelectsBest(segs) ==
    /\ Candidates(segs) = {} => accepted_codec = None
    /\ Candidates(segs) # {} =>
          \E i \in Candidates(segs) :
              accepted_codec = NamedCodec(segs[i]) /\ IsBest(segs, i)

IgnoresUnrecognized(segs) ==
    /\ from_accept_encoding(join(WithoutUnrecognized(segs))) = accepted_codec
    /\ \A u \in UnrecognizedTexts : \A k \in 0..Len(segs) :
          from_accept_encoding(join(InsertAt(segs, k, u))) = accepted_codec

\* C1: for every Accept-Encoding string from_accept_encoding returns the codec
\* of the segment with the highest quality among the segments naming a
\* recognized codec with nonzero quality, the lowest rank winning among equal
\* qualities, and segments with unrecognized tokens never change the result.
C1_HighestQualityWins ==
    Negotiated =>
        SelectsBest(Unwrap(segments)) /\ IgnoresUnrecognized(Unwrap(segments))

HasNaN(segs) == \E i \in 1..Len(segs) : Quality(segs[i]).kind = "nan"

\* C1 for the headers in which no quality is NaN
C1_HighestQualityWinsWithoutNaN ==
    (Negotiated /\ ~HasNaN(Unwrap(segments))) =>
        SelectsBest(Unwrap(segments)) /\ IgnoresUnrecognized(Unwrap(segments))

Permuted(segs, p) == [i \in 1..Len(segs) |-> segs[p[i]]]

OrderIndependent(segs) ==
    \A p \in Permutations(1..Len(segs)) :
        from_accept_encoding(join(Permuted(segs, p))) = accepted_codec

\* C2: the negotiated codec does not depend on the order of the segments:
\* every permutation of the segment list negotiates the same codec.
C2_OrderIndependent == Negotiated => OrderIndependent(Unwrap(segments))

\* C2 for the headers in which no quality is NaN
C2_OrderIndependentWithoutNaN ==
    (Negotiated /\ ~HasNaN(Unwrap(segments))) => OrderIndependent(Unwrap(segments))

\* C3: a codec is never returned when every segment naming it resolves to
\* quality 0.
C3_ZeroQualityDiscarded ==
    Negotiated =>
        \A c \in Codec :
            (\A i \in 1..Len(Unwrap(segments)) :
                NamedCodec(Unwrap(segments)[i]) = Some(c)
                    => IsZeroQuality(Quality(Unwrap(segments)[i])))
            => accepted_codec # Some(c)

\* "gzip;q=0,br;q=0.5" was negotiated and gave Brotli
C3_Witness ==
    /\ pc = "called"
    /\ segments = Some(<<<<"g", "z", "i", "p", ";", "q", "=", "0">>, <<"b", "r", ";", "q", "=", "0", ".", "5">>>>)
    /\ accepted_codec = Some("Brotli")

\* C4: negotiation has no error outcome: every request, whatever its header,
\* ends with one codec or none; none when no segment names a recognized codec
\* with nonzero quality or there is no readable header; and a request without
\* a negotiated codec gets a passthrough body.
C4_NoCodecIsPassthrough ==
    /\ accepted_codec \in {None} \cup {Some(c) : c \in Codec}
    /\ (pc = "called" /\ ~Negotiated) => accepted_codec = None
    /\ (Negotiated /\ Candidates(Unwrap(segments)) = {}) => accepted_codec = None
    /\ (pc = "ready" /\ accepted_codec = None) =>
          Unwrap(wrapped).body.kind = "Passthrough"

\* the response to "identity;q=0.9," is a passthrough body
C4_Witness ==
    /\ pc = "ready"
    /\ segments = Some(<<<<"i", "d", "e", "n", "t", "i", "t", "y", ";", "q", "=", "0", ".", "9">>, <<>>>>)
    /\ accepted_codec = None
    /\ Unwrap(wrapped).body.kind = "Passthrough"

(***************************************************************************)
(* Eligibility: what the claims speak of.  A header's value is its first   *)
(* instance, taken as the bytes the response carries.                      *)
(***************************************************************************)

Present(headers, name) == headers[name] # <<>>

Value(headers, name) == headers[name][1]

\* the value can be read as text (every byte is visible ASCII)
Readable(headers, name) ==
    Present(headers, name) => IsSome(to_str(Value(headers, name)))

\* begins with image/ but not image/svg+xml, or with application/grpc but not
\* application/grpc-web
TypeDisqualifies(headers) ==
    /\ Present(headers, CONTENT_TYPE)
    /\ LET ct == Value(headers, CONTENT_TYPE)
       IN  \/ starts_with(ct, <<"i", "m", "a", "g", "e", "/">>) /\ ~starts_with(ct, <<"i", "m", "a", "g", "e", "/", "s", "v", "g", "+", "x", "m", "l">>)
           \/ /\ starts_with(ct, <<"a", "p", "p", "l", "i", "c", "a", "t", "i", "o", "n", "/", "g", "r", "p", "c">>)
              /\ ~starts_with(ct, <<"a", "p", "p", "l", "i", "c", "a", "t", "i", "o", "n", "/", "g", "r", "p", "c", "-", "w", "e", "b">>)

\* present and parses to an integer strictly less than min
LengthDisqualifies(headers, min) ==
    /\ Present(headers, CONTENT_LENGTH)
    /\ IsSome(parse_usize(Value(headers, CONTENT_LENGTH)))
    /\ Unwrap(parse_usize(Value(headers, CONTENT_LENGTH))) < min

\* X-Accel-Buffering equal to "no" ignoring case, or a Content-Type that
\* begins with text/event-stream or application/grpc-web
WantsAlwaysFlush(headers) ==
    \/ /\ Present(headers, X_ACCEL_BUFFERING)
       /\ eq_ignore_ascii_case(Value(headers, X_ACCEL_BUFFERING), <<"n", "o">>)
    \/ /\ Present(headers, CONTENT_TYPE)
       /\ \/ starts_with(Value(headers, CONTENT_TYPE), <<"t", "e", "x", "t", "/", "e", "v", "e", "n", "t", "-", "s", "t", "r", "e", "a", "m">>)
          \/ starts_with(Value(headers, CONTENT_TYPE), <<"a", "p", "p", "l", "i", "c", "a", "t", "i", "o", "n", "/", "g", "r", "p", "c", "-", "w", "e", "b">>)

\* wrap_response has run
Wrapped == pc = "ready"

Body == Unwrap(wrapped).body

IsCompressed == Wrapped /\ Body.kind = "Compressed"

ShouldCompress ==
    /\ IsSome(accepted_codec)
    /\ ~Present(response.headers, CONTENT_ENCODING)
    /\ ~Present(response.headers, CONTENT_RANGE)
    /\ ~TypeDisqualifies(response.headers)
    /\ ~LengthDisqualifies(response.headers, min_size)

\* C5: wrap_response selects the compressed body if and only if a codec was
\* negotiated, the response has no Content-Encoding and no Content-Range
\* header, its Content-Type is not disqualified and its Content-Length is not
\* below min_size; otherwise it selects the passthrough body.
C5_CompressIffEligible ==
    Wrapped => /\ Body.kind \in {"Compressed", "Passthrough"}
               /\ Body.kind = "Compressed" <=> ShouldCompress

\* C5 for the responses whose Content-Type can be read as text
C5_CompressIffEligibleReadable ==
    (Wrapped /\ Readable(response.headers, CONTENT_TYPE)) =>
        (Body.kind = "Compressed" <=> ShouldCompress)

\* nothing but the Content-Type can keep the response from being compressed
OnlyTypeDecides ==
    /\ Wrapped
    /\ IsSome(accepted_codec)
    /\ ~Present(response.headers, CONTENT_ENCODING)
    /\ ~Present(response.headers, CONTENT_RANGE)
    /\ ~is_below_min_size(response.headers, min_size)

\* C6: a Content-Type disqualifies compression exactly when it begins with
\* "image/" but not "image/svg+xml", or with "application/grpc" but not
\* "application/grpc-web"; any other and an absent one do not.
C6_TypeDisqualifies ==
    OnlyTypeDecides => (Body.kind = "Passthrough" <=> TypeDisqualifies(response.headers))

\* C6 for the Content-Types that can be read as text
C6_TypeDisqualifiesReadable ==
    (OnlyTypeDecides /\ Readable(response.headers, CONTENT_TYPE)) =>
        (Body.kind = "Passthrough" <=> TypeDisqualifies(response.headers))

\* nothing but the Content-Length can keep the response from being compressed
OnlyLengthDecides ==
    /\ Wrapped
    /\ IsSome(accepted_codec)
    /\ ~Present(response.headers, CONTENT_ENCODING)
    /\ ~Present(response.headers, CONTENT_RANGE)
    /\ ~is_uncompressible_content_type(response.headers)

\* C7: the size threshold disqualifies exactly when Content-Length is present
\* and parses to an integer strictly less than min_size; an equal or greater,
\* an unparseable and an absent Content-Length never disqualify.
C7_BelowMinSize ==
    OnlyLengthDecides =>
        (Body.kind = "Passthrough" <=> LengthDisqualifies(response.headers, min_size))

\* Content-Length 9 under min_size 10 is passed through, nothing else on the response
C7_Witness ==
    /\ OnlyLengthDecides
    /\ min_size = 10
    /\ response.headers = [NoHeaders EXCEPT ![CONTENT_LENGTH] = <<<<"9">>>>]
    /\ Body.kind = "Passthrough"

\* C8: when a response is compressed, always_flush is true if and only if
\* X-Accel-Buffering equals "no" ignoring ASCII case or the Content-Type
\* begins with "text/event-stream" or "application/grpc-web".
C8_AlwaysFlush ==
    IsCompressed => (Body.always_flush <=> WantsAlwaysFlush(response.headers))

\* C8 for the responses whose Content-Type can be read as text
C8_AlwaysFlushReadable ==
    (IsCompressed /\ Readable(response.headers, CONTENT_TYPE)) =>
        (Body.always_flush <=> WantsAlwaysFlush(response.headers))

\* the wire names: zstd, br, gzip, deflate
WireNames ==
    { <<"Zstd", <<"z", "s", "t", "d">>>>, <<"Brotli", <<"b", "r">>>>, <<"Gzip", <<"g", "z", "i", "p">>>>,
      <<"Deflate", <<"d", "e", "f", "l", "a", "t", "e">>>> }

\* the comma-separated tokens of every instance of a header, trimmed
RECURSIVE Tokens(_)
Tokens(values) ==
    IF values = <<>> THEN <<>>
    ELSE LET pieces == split(Head(values), ",")
         IN  [i \in 1..Len(pieces) |-> trim(pieces[i])] \o Tokens(Tail(values))

IsAcceptEncoding(token) == eq_ignore_ascii_case(token, <<"a", "c", "c", "e", "p", "t", "-", "e", "n", "c", "o", "d", "i", "n", "g">>)

IsStar(token) == token = <<"*">>

VaryCovers(values) ==
    \E i \in 1..Len(Tokens(values)) :
        IsAcceptEncoding(Tokens(values)[i]) \/ IsStar(Tokens(values)[i])

\* C9: whenever wrap_response compresses, the returned headers have
\* Content-Encoding equal to the codec's wire name, no Content-Length, no
\* Accept-Ranges, a Vary set that contains "accept-encoding" or "*", and every
\* other header unchanged.
C9_CompressedHeaders ==
    IsCompressed =>
        LET out == Unwrap(wrapped).headers
        IN  /\ Some(Body.codec) = accepted_codec
            /\ <<Body.codec, Value(out, CONTENT_ENCODING)>> \in WireNames
            /\ Len(out[CONTENT_ENCODING]) = 1
            /\ ~Present(out, CONTENT_LENGTH)
            /\ ~Present(out, ACCEPT_RANGES)
            /\ VaryCovers(out[VARY])
            /\ \A n \in HeaderNames \ {CONTENT_ENCODING, CONTENT_LENGTH, ACCEPT_RANGES, VARY} :
                  out[n] = response.headers[n]

\* a response with Content-Length, Accept-Ranges and ETag was compressed
C9_Witness ==
    /\ IsCompressed
    /\ response.headers = [NoHeaders EXCEPT ![CONTENT_LENGTH] = <<<<"1", "1">>>>,
                                            ![ACCEPT_RANGES] = <<<<"b", "y", "t", "e", "s">>>>,
                                            ![ETAG] = <<<<"v", "1">>>>]
    /\ Unwrap(wrapped).headers[ETAG] = <<<<"v", "1">>>>
    /\ Unwrap(wrapped).headers[VARY] = <<<<"a", "c", "c", "e", "p", "t", "-", "e", "n", "c", "o", "d", "i", "n", "g">>>>

CountAcceptEncoding(values) ==
    Cardinality({i \in 1..Len(Tokens(values)) : IsAcceptEncoding(Tokens(values)[i])})

VaryMerged(before, after) ==
    /\ after = before \/ after = Append(before, <<"a", "c", "c", "e", "p", "t", "-", "e", "n", "c", "o", "d", "i", "n", "g">>)
    /\ after # before => ~VaryCovers(before)
    /\ CountAcceptEncoding(after) <= 1 \/ CountAcceptEncoding(after) = CountAcceptEncoding(before)

\* C10: the Vary merge appends one "accept-encoding" value only when no token
\* of any existing Vary instance equals "*" or "accept-encoding" ignoring
\* case, keeps the existing values unchanged and in order, gives the same
\* header set when applied again, and leaves no duplicate accept-encoding token.
C10_VaryMerge ==
    IsCompressed =>
        /\ VaryMerged(response.headers[VARY], Unwrap(wrapped).headers[VARY])
        /\ add_vary_accept_encoding(Unwrap(wrapped).headers) = Unwrap(wrapped).headers

\* C10 for the responses whose Vary values can all be read as text
C10_VaryMergeReadable ==
    (IsCompressed /\ \A i \in 1..Len(response.headers[VARY]) :
                         IsSome(to_str(response.headers[VARY][i]))) =>
        /\ VaryMerged(response.headers[VARY], Unwrap(wrapped).headers[VARY])
        /\ add_vary_accept_encoding(Unwrap(wrapped).headers) = Unwrap(wrapped).headers

(***************************************************************************)
(* The passthrough path of wrap_response                                   *)
(***************************************************************************)

\* C11: on the passthrough path wrap_response leaves the response headers
\* unchanged: when the response is not compressed, the header set after
\* wrap_response equals the header set before it.
C11_PassthroughKeepsHeaders ==
    (Wrapped /\ ~IsCompressed) => Unwrap(wrapped).headers = response.headers

\* a response with Content-Length, Accept-Ranges and Vary went through
\* uncompressed although the client accepts gzip
C11_Witness ==
    /\ Wrapped
    /\ Body.kind = "Passthrough"
    /\ IsSome(accepted_codec)
    /\ Present(response.headers, CONTENT_LENGTH)
    /\ Present(response.headers, ACCEPT_RANGES)
    /\ response.headers[VARY] = <<<<"o", "r", "i", "g", "i", "n">>>>
    /\ ~Present(Unwrap(wrapped).headers, CONTENT_ENCODING)

(***************************************************************************)
(* The compressing stream                                                  *)
(***************************************************************************)

\* the number of bytes of a data buffer, over all its chunks
RECURSIVE BufferBytes(_)
BufferBytes(data) ==
    IF data = <<>> THEN 0 ELSE Len(data[1]) + BufferBytes(Tail(data))

\* the number of bytes of all data frames of a frame sequence
RECURSIVE DataBytes(_)
DataBytes(frames) ==
    IF frames = <<>> THEN 0
    ELSE (IF Head(frames).type = "data" THEN BufferBytes(Head(frames).data) ELSE 0)
         + DataBytes(Tail(frames))

\* what the inner body has yielded so far, errors included
Yielded == SubSeq(inner.frames, 1, inner.pos)

\* the encoder has never failed and never held back
EncoderWellBehaved == ~enc.failed /\ enc.stalls = 0

\* C12: for every sequence of inner frames driven through the compressing
\* stream to exhaustion, the number of bytes the encoder's encode operation
\* was given equals the number of bytes of all inner data frames, whatever
\* the layout of a data buffer: no input byte is silently dropped.  Stated
\* for an encoder that never fails and consumes some input in every call.
C12_NoInputDropped ==
    (IsCompressedBody /\ state = "Done" /\ EncoderWellBehaved) =>
        enc.fed = DataBytes(inner.frames)

\* every data buffer the inner body yields is one chunk or empty
OneChunkBuffers ==
    \A i \in 1..Len(inner.frames) :
        inner.frames[i].type = "data" => Len(inner.frames[i].data) <= 1

\* C12 for the inner bodies whose data buffers have one chunk
C12_NoInputDroppedOneChunk ==
    (IsCompressedBody /\ state = "Done" /\ EncoderWellBehaved /\ OneChunkBuffers) =>
        enc.fed = DataBytes(inner.frames)

\* C12 with one chunk and no failure, whatever the encoder consumes per call
C12_NoInputDroppedAnyEncoder ==
    (IsCompressedBody /\ state = "Done" /\ ~enc.failed /\ OneChunkBuffers) =>
        enc.fed = DataBytes(inner.frames)

\* the positions of the trailers frames of a frame sequence
TrailersAt(frames) ==
    {i \in 1..Len(frames) : frames[i].type = "trailers"}

\* C13: the compressing stream emits at most one trailers frame; it emits
\* one only if the inner body supplied a trailers frame, the emitted
\* trailers equal the supplied ones, and no frame is emitted after the
\* trailers frame.
C13_OneTrailersFrameLast ==
    IsCompressedBody =>
        /\ Cardinality(TrailersAt(emitted)) <= 1
        /\ \A i \in TrailersAt(emitted) :
              /\ i = Len(emitted)
              /\ \E j \in TrailersAt(Yielded) :
                    Yielded[j].trailers = emitted[i].trailers

\* data came out, then the inner body's one-header trailers, and the pull
\* after that reported exhaustion
C13_Witness ==
    /\ IsCompressedBody
    /\ Len(emitted) >= 2
    /\ emitted[1].type = "data"
    /\ emitted[Len(emitted)] = Frame_trailers([NoHeaders EXCEPT ![ETAG] = <<<<"v", "1">>>>])
    /\ state = "Done"
    /\ pull = "idle"
    /\ result = Some(Ready(None))

\* C14: for every finite inner frame sequence of a compressed response, a
\* caller that keeps pulling reaches state Done after a finite number of
\* pulls.
C14_ReachesDone ==
    <>(IsPassthroughBody \/ state = "Done")

\* C14 for the runs in which no encoder call fails
C14_ReachesDoneUnlessEncoderFails ==
    <>(IsPassthroughBody \/ state = "Done" \/ enc.failed)

\* C15: Done is absorbing: once the compressing stream is in state Done,
\* every further pull reports exhaustion, produces no frame, does not poll
\* the inner body, does not invoke the encoder, and leaves the state Done.
C15_DoneAbsorbing ==
    [][(IsCompressedBody /\ state = "Done") =>
          /\ stream' = stream
          /\ result' = Some(Ready(None))
          /\ pull' = "idle"
          /\ emitted' = emitted
          /\ inner' = inner
          /\ enc' = enc
          /\ calls' = (IF pull = "idle" THEN {} ELSE calls)]_vars

\* a pull that began in Done has returned: frames were emitted before, the
\* pull made no call and reported exhaustion
C15_Witness ==
    /\ IsCompressedBody
    /\ state = "Done"
    /\ pull = "idle"
    /\ calls = {}
    /\ result = Some(Ready(None))
    /\ Len(emitted) >= 2
    /\ inner.pos >= 1

\* the state changes the compressing stream may make
ForwardMoves ==
    { <<"Reading", "Finishing">>, <<"Finishing", "Trailers">>,
      <<"Finishing", "Done">>, <<"Trailers", "Done">> }

\* a compressed body that has not been pulled is in Reading
StartsInReading ==
    (IsCompressedBody /\ result = None /\ pull = "idle") => state = "Reading"

\* C16: the compression state only moves forward: a compressed body starts
\* in Reading, and over any sequence of pulls every state change is one of
\* Reading to Finishing, Finishing to Trailers, Finishing to Done, Trailers
\* to Done; no pull returns the state to an earlier one.
C16_ForwardOnly ==
    /\ StartsInReading
    /\ [][IsCompressedBody =>
             (state' = state \/ <<state, state'>> \in ForwardMoves)]_vars

\* a body has gone from Reading through Finishing and Trailers to Done
C16_Witness ==
    /\ IsCompressedBody
    /\ state = "Done"
    /\ TrailersAt(emitted) # {}
    /\ inner.pos = Len(inner.frames)
    /\ inner.pos >= 2

\* C17: in every reachable state of a compressed body, state = Done implies
\* that no deferred trailer set is stored: the body never moves to Done
\* while a deferred trailer set is still unread, it passes through Trailers
\* and emits it first.
C17_DoneHasNoTrailers ==
    /\ []((IsCompressedBody /\ state = "Done") =>
            /\ Unwrap(stream).pending_trailers = None
            /\ TrailersAt(Yielded) # {} => TrailersAt(emitted) # {})
    /\ [][(IsCompressedBody /\ state # "Done" /\ state' = "Done"
             /\ IsSome(Unwrap(stream).pending_trailers)) =>
             (state = "Trailers" /\ TrailersAt(emitted') # {})]_vars

\* the inner body's trailers were deferred while the encoder finished with
\* two frames, then emitted, and the body is in Done
C17_Witness ==
    /\ IsCompressedBody
    /\ state = "Done"
    /\ TrailersAt(Yielded) # {}
    /\ Len(emitted) >= 3
    /\ emitted[Len(emitted)].type = "trailers"
    /\ Unwrap(stream).pending_trailers = None

(***************************************************************************)
(* The passthrough stream                                                  *)
(***************************************************************************)

\* the bytes of a data buffer: its chunks one after the other
RECURSIVE Concatenated(_)
Concatenated(data) ==
    IF data = <<>> THEN <<>>
    ELSE Concatenated(SubSeq(data, 1, Len(data) - 1)) \o data[Len(data)]

\* a frame of the inner body as the caller should see it
SameFrame(frame) ==
    IF frame.type = "data" THEN Frame_data(Concatenated(frame.data)) ELSE frame

\* the frames among what the inner body has yielded, as the caller should
\* see them
RECURSIVE SameFrames(_)
SameFrames(items) ==
    IF items = <<>> THEN <<>>
    ELSE IF Head(items).type = "error" THEN SameFrames(Tail(items))
    ELSE <<SameFrame(Head(items))>> \o SameFrames(Tail(items))

\* C18: the passthrough stream is the identity on the frame sequence: it
\* emits the same number of frames, in the same order, each data frame with
\* the same bytes (all chunks of a multi-chunk buffer, concatenated) and
\* each trailers frame unchanged, and it reports exhaustion exactly when the
\* inner body does.
C18_PassthroughIdentity ==
    /\ [](IsPassthroughBody =>
            /\ emitted = SameFrames(Yielded)
            /\ result = Some(Ready(None)) => Exhausted)
    /\ [][(IsPassthroughBody /\ Exhausted /\ pulls' # pulls) =>
             result' \in {Some(Ready(None)), Some(Pending)}]_vars

\* a two-chunk data frame and one-header trailers have gone through, and
\* the next pull reported exhaustion
C18_Witness ==
    /\ IsPassthroughBody
    /\ inner.frames = << Frame_data(<<<<"c">>, <<"d">>>>),
                         Frame_trailers([NoHeaders EXCEPT ![ETAG] = <<<<"v", "1">>>>]) >>
    /\ emitted = << Frame_data(<<"c", "d">>),
                    Frame_trailers([NoHeaders EXCEPT ![ETAG] = <<<<"v", "1">>>>]) >>
    /\ result = Some(Ready(None))

(***************************************************************************)
(* Errors of the inner body and of the encoder                             *)
(***************************************************************************)

\* the inner body has reported an error
InnerFailed ==
    \E j \in 1..inner.pos : inner.frames[j].type = "error"

\* C19: when the inner body reports an error during Reading, the
\* compressing stream surfaces that error to the caller and becomes
\* unusable: every later pull reports exhaustion, and neither the inner
\* body is polled nor a frame produced after the error.
C19_InnerErrorEndsStream ==
    /\ [][(IsCompressedBody /\ ~InnerFailed /\ InnerFailed') =>
             result' = Some(Ready(Err("inner")))]_vars
    /\ [][(IsCompressedBody /\ InnerFailed) =>
             /\ "poll_frame" \notin calls'
             /\ emitted' = emitted
             /\ pulls' # pulls => result' = Some(Ready(None))]_vars

\* C19, the part the code keeps: the error of the inner body is what the
\* pull returns, and the state stays Reading
C19_InnerErrorSurfaced ==
    [][(IsCompressedBody /\ inner.pos' > inner.pos /\ NextFrame.type = "error") =>
          /\ result' = Some(Ready(Err("inner")))
          /\ pull' = "idle"
          /\ stream' = stream
          /\ state = "Reading"]_vars

\* the calls of the encoder
EncoderCalls == {"encode", "flush", "finish"}

\* C20: when any encoder operation (encode, flush or finish) returns an
\* error, the pull returns an I/O error and the stream is terminated: no
\* later pull produces a frame and the failed encoder is not invoked again.
C20_EncoderErrorEndsStream ==
    /\ [][(IsCompressedBody /\ ~enc.failed /\ enc'.failed) =>
             result' = Some(Ready(Err("encoder")))]_vars
    /\ [][(IsCompressedBody /\ enc.failed) =>
             /\ calls' \cap EncoderCalls = {}
             /\ emitted' = emitted]_vars

\* C20, the part the code keeps: the pull in which an encoder call first
\* fails returns the error at once and leaves the state as it is
C20_EncoderErrorSurfaced ==
    [][(IsCompressedBody /\ ~enc.failed /\ enc'.failed) =>
          /\ result' = Some(Ready(Err("encoder")))
          /\ pull' = "idle"
          /\ stream' = stream]_vars

(***************************************************************************)
(* Suspension                                                              *)
(***************************************************************************)

\* C21: whenever poll_frame of a compressed body has returned Pending, the
\* inner body returned Pending in that poll_frame and so keeps the caller's
\* waker: the caller will be notified
C21_PendingHasWaker ==
    (IsCompressedBody /\ pull = "idle" /\ result = Some(Pending)) => inner.waker

(***************************************************************************)
(* is_end_stream and size_hint                                             *)
(***************************************************************************)

\* http_body::SizeHint::default(): no lower bound above 0, no upper bound
SizeHint_default == [lower |-> 0, upper |-> None]

\* the inner body's is_end_stream: it has yielded everything
inner_is_end_stream(i) == i.pos = Len(i.frames)

\* the inner body's size_hint: the bytes of the data frames it has yet to
\* yield
inner_size_hint(i) ==
    LET n == DataBytes(SubSeq(i.frames, i.pos + 1, Len(i.frames)))
    IN  [lower |-> n, upper |-> Some(n)]

\* is_end_stream true as soon as the encoder is done
is_end_stream_finished(b, i) ==
    IF b.kind = "Passthrough" THEN inner_is_end_stream(i)
    ELSE b.state \in {"Trailers", "Done"}

\* Body::is_end_stream of CompressionBody
is_end_stream(b, i) ==
    IF b.kind = "Passthrough" THEN inner_is_end_stream(i)
    ELSE b.state = "Done"

\* Body::size_hint of CompressionBody
size_hint(b, i) ==
    IF b.kind = "Passthrough" THEN inner_size_hint(i)
    ELSE SizeHint_default

\* C22: in every reachable state, is_end_stream of a compressed body is
\* true exactly when its state is Done and its size_hint has lower bound 0
\* and no upper bound; both answers of a passthrough body are the inner
\* body's own
C22_EndStreamAndSizeHint ==
    /\ IsCompressedBody =>
          /\ is_end_stream(Unwrap(stream), inner) = (state = "Done")
          /\ size_hint(Unwrap(stream), inner).lower = 0
          /\ size_hint(Unwrap(stream), inner).upper = None
    /\ IsPassthroughBody =>
          /\ is_end_stream(Unwrap(stream), inner) = (inner.pos = Len(inner.frames))
          /\ size_hint(Unwrap(stream), inner) = inner_size_hint(inner)

\* a compressed body whose encoder failed in Finishing after the inner body
\* was exhausted with bytes yielded: not at its end, size unknown
C22_Witness ==
    /\ IsCompressedBody /\ pull = "idle" /\ state = "Finishing"
    /\ result = Some(Ready(Err("encoder")))
    /\ inner.pos = Len(inner.frames) /\ enc.fed > 0
    /\ ~is_end_stream(Unwrap(stream), inner)
    /\ size_hint(Unwrap(stream), inner) # inner_size_hint(inner)

\* C23: a poll_frame of a compressed body returns Pending only in state
\* Reading and only as the answer to a poll of the inner body that returned
\* Pending in that poll_frame
C23_PendingOnlyFromInner ==
    [][(IsCompressedBody /\ pulls' # pulls /\ result' = Some(Pending)) =>
          /\ state = "Reading" /\ state' = "Reading"
          /\ InLoop
          /\ inner'.waker]_vars

\* C23, the part about the states: a poll_frame that returns Pending began
\* in Reading and ends in Reading
C23_PendingOnlyInReading ==
    [][(IsCompressedBody /\ pulls' # pulls /\ result' = Some(Pending)) =>
          (state = "Reading" /\ state' = "Reading" /\ "finish" \notin calls')]_vars

(***************************************************************************)
(* compress_chunk                                                          *)
(***************************************************************************)

\* C24: the encode loop goes round again only after a call that left input
\* unconsumed and that itself consumed or wrote something: it stops at the
\* first call that consumes nothing and writes nothing
C24_EncodeLoopStops ==
    [][(pull = "encode" /\ pull' = "encode") =>
          /\ input_buf'.written_len < Len(input_buf'.buffer)
          /\ \/ enc'.fed > enc.fed
             \/ Len(enc'.output) > Len(enc.output)]_vars

\* C24, as the loop is written: it goes round again after a call that left
\* input unconsumed and wrote something, or after which anything of the
\* chunk has been consumed, by this call or an earlier one
C24_EncodeLoopStopsAtNoneConsumed ==
    [][(pull = "encode" /\ pull' = "encode") =>
          /\ input_buf'.written_len < Len(input_buf'.buffer)
          /\ \/ input_buf'.written_len > 0
             \/ Len(enc'.output) > Len(enc.output)]_vars

\* the number of bytes in a sequence of runs
RECURSIVE bytes_len(_)
bytes_len(runs) ==
    IF runs = <<>> THEN 0 ELSE runs[1].len + bytes_len(Tail(runs))

\* what the encoder writes in a step
Written == SubSeq(enc'.output, Len(enc.output) + 1, Len(enc'.output))

\* a step in which poll_frame returns the error of an encoder call
EncoderFails == pulls' # pulls /\ result' = Some(Ready(Err("encoder")))

\* compress_chunk is running
InChunk == pull \in {"encode", "flush"}

\* C25: compress_chunk starts with nothing collected and collects what each
\* encoder call writes; when it returns without an encoder error, it
\* returns one data frame of all that was collected if that is not empty,
\* and Pending with the state still Reading if it is; and no data frame a
\* compressed body has emitted is empty
C25_OneFramePerChunk ==
    /\ [](IsCompressedBody =>
            \A i \in 1..Len(emitted) :
                emitted[i].type = "data" => bytes_len(emitted[i].bytes) > 0)
    /\ [][/\ (~InChunk /\ InChunk') => all_output' = <<>>
          /\ (InChunk /\ InChunk') => all_output' = all_output \o Written
          /\ (InChunk /\ pulls' # pulls /\ ~EncoderFails) =>
                LET all == all_output \o Written
                IN  IF all # <<>>
                    THEN /\ result' = Some(Ready(FrameOk(Frame_compressed(all))))
                         /\ emitted' = Append(emitted, Frame_compressed(all))
                    ELSE /\ result' = Some(Pending)
                         /\ state' = "Reading"
                         /\ emitted' = emitted]_vars

\* a data chunk has been compressed into one frame that holds what two
\* encoder calls wrote
C25_Witness ==
    /\ IsCompressedBody /\ pull = "idle" /\ "encode" \in calls
    /\ IsSome(result) /\ IsSome(frame_of(Unwrap(result)))
    /\ Len(Unwrap(frame_of(Unwrap(result))).bytes) = 2
    /\ emitted[Len(emitted)] = Unwrap(frame_of(Unwrap(result)))

(***************************************************************************)
(* Finishing and trailers                                                  *)
(***************************************************************************)

\* C26: every step taken in state Finishing is a call of encoder.finish;
\* unless the call fails, what it writes, if anything, is returned at once
\* as one data frame of just those bytes, a call that writes nothing goes
\* on within the same poll_frame, and the state stays Finishing until the
\* call reports that the encoder is done, when it becomes Trailers if
\* trailers are stored and Done if not
C26_FinishUntilDone ==
    [][(IsCompressedBody /\ state = "Finishing") =>
          /\ "finish" \in calls'
          /\ ~EncoderFails =>
                /\ IF Written # <<>>
                   THEN /\ pulls' # pulls
                        /\ result' = Some(Ready(FrameOk(Frame_compressed(Written))))
                        /\ emitted' = Append(emitted, Frame_compressed(Written))
                   ELSE /\ pulls' = pulls /\ pull' = "loop"
                        /\ emitted' = emitted
                /\ state' = IF ~enc'.finished THEN "Finishing"
                            ELSE IF IsSome(Unwrap(stream).pending_trailers) THEN "Trailers"
                            ELSE "Done"
                /\ Unwrap(stream').pending_trailers = Unwrap(stream).pending_trailers]_vars

\* over an inner body of trailers alone, a finish call wrote nothing and
\* was not done, the next one in the same poll_frame wrote the one data
\* frame and was done: the state is Trailers
C26_Witness ==
    /\ IsCompressedBody /\ pull = "idle" /\ state = "Trailers"
    /\ Len(inner.frames) = 1 /\ inner.pos = 1
    /\ enc.finished /\ enc.stalls = 1 /\ ~enc.failed
    /\ calls = {"poll_frame", "finish"}
    /\ Len(emitted) = 1 /\ emitted[1] = Frame_compressed(enc.output)

\* the bytes of the data frames of a compressed body's frame sequence
RECURSIVE EmittedBytes(_)
EmittedBytes(frames) ==
    IF frames = <<>> THEN <<>>
    ELSE (IF Head(frames).type = "data" THEN Head(frames).bytes ELSE <<>>)
         \o EmittedBytes(Tail(frames))

\* C27: the step that takes a trailers frame from the inner body emits
\* nothing, stores the trailers and moves to Finishing; the step that emits
\* a trailers frame is taken in state Trailers after encoder.finish has
\* reported that it is done, emits the stored trailers, and, when no
\* encoder call has failed, comes after every byte the encoder wrote has
\* been emitted
C27_TrailersDeferred ==
    /\ [][(IsCompressedBody /\ inner.pos' > inner.pos /\ NextFrame.type = "trailers") =>
             /\ Unwrap(stream').pending_trailers = Some(NextFrame.trailers)
             /\ state' = "Finishing"
             /\ emitted' = emitted /\ pulls' = pulls]_vars
    /\ [][(IsCompressedBody /\ Len(emitted') > Len(emitted)
             /\ emitted'[Len(emitted')].type = "trailers") =>
             /\ state = "Trailers" /\ enc.finished
             /\ IsSome(Unwrap(stream).pending_trailers)
             /\ emitted' = Append(emitted, Frame_trailers(Unwrap(Unwrap(stream).pending_trailers)))
             /\ ~enc.failed => EmittedBytes(emitted) = enc.output]_vars

\* a data frame written by finish, then, in a poll_frame of its own, the
\* trailers the inner body yielded
C27_Witness ==
    /\ IsCompressedBody /\ pull = "idle" /\ state = "Done"
    /\ enc.finished /\ calls = {}
    /\ Len(emitted) = 2
    /\ emitted[1] = Frame_compressed(enc.output)
    /\ emitted[2] = inner.frames[Len(inner.frames)]

(***************************************************************************)
(* Flushing                                                                *)
(***************************************************************************)

\* C28: a compressed body without always_flush never calls encoder.flush;
\* one with always_flush goes from the encode loop of every chunk to the
\* flush loop, calls flush until a call is done or fails, and returns what
\* the flush calls wrote in the chunk's frame, after what the encode calls
\* wrote
C28_FlushOnlyWhenAlwaysFlush ==
    /\ []((IsCompressedBody /\ ~Unwrap(stream).always_flush) =>
             (pull # "flush" /\ "flush" \notin calls))
    /\ []((IsCompressedBody /\ Unwrap(stream).always_flush /\ pull = "idle"
             /\ "encode" \in calls /\ result # Some(Ready(Err("encoder")))) =>
             "flush" \in calls)
    /\ [][(IsCompressedBody /\ Unwrap(stream).always_flush
             /\ pull = "encode" /\ ~EncoderFails) =>
             (pull' \in {"encode", "flush"} /\ pulls' = pulls)]_vars
    /\ [][(pull = "flush" /\ ~EncoderFails) =>
             /\ "flush" \in calls'
             /\ IF enc'.stalls > enc.stalls
                THEN pull' = "flush" /\ all_output' = all_output \o Written
                ELSE /\ pulls' # pulls
                     /\ result' = Some(chunk_result(all_output \o Written))]_vars

\* with always_flush, over a zero-length data frame, one frame holds what
\* the encode call and two flush calls wrote, the first flush call not
\* being done
C28_Witness ==
    /\ IsCompressedBody /\ Unwrap(stream).always_flush /\ pull = "idle"
    /\ inner.pos = 1 /\ inner.frames[1] = Frame_data(<<>>)
    /\ calls = {"poll_frame", "encode", "flush"}
    /\ enc.stalls = 1 /\ ~enc.failed
    /\ Len(emitted) = 1 /\ emitted[1] = Frame_compressed(enc.output)
    /\ Len(enc.output) = 3

(***************************************************************************)
(* Order                                                                   *)
(***************************************************************************)

\* `taken` is made, frame after frame in the order of `frames`, of the
\* first bytes of each data frame
RECURSIVE InOrder(_, _)
InOrder(taken, frames) ==
    IF frames = <<>> THEN taken = <<>>
    ELSE LET bytes == IF Head(frames).type = "data" THEN copy_chunks(Head(frames).data)
                      ELSE <<>>
         IN  \E k \in 0..Len(bytes) :
                /\ k <= Len(taken)
                /\ SubSeq(taken, 1, k) = SubSeq(bytes, 1, k)
                /\ InOrder(SubSeq(taken, k + 1, Len(taken)), Tail(frames))

\* the runs are in the order the encoder wrote them
Ascending(runs) ==
    \A i \in 1..(Len(runs) - 1) : runs[i].call < runs[i + 1].call

\* C29: whenever the encoder has consumed bytes, all it has consumed so far
\* is, in the order the inner body yielded its frames, first bytes of each
\* data frame; the inner body is
\* polled only when no compress_chunk is running, and while one is running
\* its input is of the frame yielded last; the bytes emitted and collected
\* are in the order the encoder wrote them
C29_NeverReordered ==
    /\ [][(IsCompressedBody /\ enc'.taken # enc.taken) =>
             InOrder(enc'.taken, SubSeq(inner'.frames, 1, inner'.pos))]_vars
    /\ [](IsCompressedBody => Ascending(EmittedBytes(emitted) \o all_output))
    /\ []((IsCompressedBody /\ InChunk) =>
             /\ inner.pos >= 1 /\ inner.frames[inner.pos].type = "data"
             /\ LET bytes == copy_chunks(inner.frames[inner.pos].data)
                IN  /\ Len(input_buf.buffer) <= Len(bytes)
                    /\ input_buf.buffer = SubSeq(bytes, 1, Len(input_buf.buffer)))
    /\ [][(IsCompressedBody /\ inner.pos' # inner.pos) =>
             (~InChunk /\ input_buf = NoInput /\ inner.pos' = inner.pos + 1)]_vars

\* two data frames of different bytes have been compressed, each into a
\* frame of what two encoder calls wrote
C29_Witness ==
    /\ IsCompressedBody /\ pull = "idle" /\ inner.pos = 2
    /\ enc.taken = <<"c", "a", "b">>
    /\ Len(emitted) = 2
    /\ Len(emitted[1].bytes) = 2 /\ Len(emitted[2].bytes) = 2

(***************************************************************************)
(* Emitted bytes                                                           *)
(***************************************************************************)

SegmentToken(seg) ==
    LET i == find(trim(seg), ";")
    IN  trim(IF i = 0 THEN trim(seg) ELSE SubSeq(trim(seg), 1, i - 1))

\* the parameter of a segment: what stands after its first ';', without the
\* blanks around; None when there is no ';'
SegmentParameter(seg) ==
    LET i == find(trim(seg), ";")
    IN  IF i = 0 THEN None ELSE Some(trim(SubSeq(trim(seg), i + 1, Len(trim(seg)))))

\* the parameter is q= or Q= followed by a text that parses as f32
HasQuality(seg) ==
    LET p == SegmentParameter(seg)
    IN  /\ IsSome(p)
        /\ Len(Unwrap(p)) >= 2
        /\ Unwrap(p)[1] \in {"q", "Q"} /\ Unwrap(p)[2] = "="
        /\ IsSome(parse_f32(SubSeq(Unwrap(p), 3, Len(Unwrap(p)))))

\* C31: every segment of a negotiated header is parsed into its token and
\* a quality that is the number parsed from the parameter when the
\* parameter is q= or Q= and a number, and 1.0 otherwise: without a
\* parameter, with a parameter that is not q=, with no number after q=,
\* and with a further ';' in the parameter
C31_SegmentParsed ==
    Negotiated =>
        \A i \in 1..Len(Unwrap(segments)) :
            LET seg == Unwrap(segments)[i]
                p   == SegmentParameter(seg)
                eq  == parse_encoding_with_quality(trim(seg))
            IN  /\ eq[1] = SegmentToken(seg)
                /\ HasQuality(seg) =>
                      eq[2] = Unwrap(parse_f32(SubSeq(Unwrap(p), 3, Len(Unwrap(p)))))
                /\ ~HasQuality(seg) => eq[2] = One
                /\ (IsSome(p) /\ find(Unwrap(p), ";") # 0) => eq[2] = One

\* "gzip;q=0.5;x=1,br;q=0.5" was negotiated: the first segment has quality
\* 1.0, above the 0.5 of the second, and gave Gzip
C31_Witness ==
    /\ pc = "called"
    /\ segments = Some(<<<<"g", "z", "i", "p", ";", "q", "=", "0", ".", "5", ";", "x", "=", "1">>, <<"b", "r", ";", "q", "=", "0", ".", "5">>>>)
    /\ Quality(Unwrap(segments)[1]) = One
    /\ accepted_codec = Some("Gzip")

\* a quality from 0 to 1
InRange(q) == q.kind = "num" /\ 0 <= q.n /\ q.n <= Pow10(q.d)

\* C32: the resolved quality of every segment of a negotiated header is a
\* number from 0 to 1
C32_QualityInRange ==
    Negotiated =>
        \A i \in 1..Len(Unwrap(segments)) : InRange(Quality(Unwrap(segments)[i]))

\* C32 for the segments whose parameter is not a number below 0 or above 1
\* or infinite
C32_QualityInRangeUnlessGivenOutOfRange ==
    Negotiated =>
        \A i \in 1..Len(Unwrap(segments)) :
            LET seg == Unwrap(segments)[i]
                p   == SegmentParameter(seg)
            IN  \/ InRange(Quality(seg))
                \/ /\ HasQuality(seg)
                   /\ ~InRange(Unwrap(parse_f32(SubSeq(Unwrap(p), 3, Len(Unwrap(p))))))

(***************************************************************************)
(* Who is called when                                                      *)
(***************************************************************************)

\* the calls a step adds to those of its poll_frame
NewCalls == calls' \ (IF pull = "idle" THEN {} ELSE calls)

\* C33: a step taken outside state Reading does not poll the inner body and
\* does not lead back to Reading; and the step in which the inner body
\* reports that it is exhausted, or yields trailers, leaves Reading for
\* Finishing
C33_InnerPolledOnlyInReading ==
    /\ [][(IsCompressedBody /\ state # "Reading") =>
             /\ inner' = inner
             /\ "poll_frame" \notin NewCalls
             /\ state' # "Reading"]_vars
    /\ [][(IsCompressedBody /\ state = "Reading" /\ InLoop /\ ~inner'.waker
             /\ (Exhausted \/ NextFrame.type = "trailers")) =>
             state' = "Finishing"]_vars

\* after the inner body yielded its trailers, a later poll_frame began in
\* Finishing and made a finish call and no other
C33_Witness ==
    /\ IsCompressedBody /\ pull = "idle" /\ state = "Trailers"
    /\ calls = {"finish"}
    /\ inner.pos = Len(inner.frames) /\ inner.pos >= 2
    /\ inner.frames[inner.pos].type = "trailers"
    /\ Len(emitted) >= 2

\* C34: compress_chunk, which calls encode and flush, runs only in state
\* Reading and before any finish call; a step that calls encode or flush
\* is taken in Reading and leaves the state Reading; a finish call is made
\* only in Finishing; once finish has been called no step calls encode or
\* flush, feeds the encoder or leads to Reading; and once finish has
\* reported that it is done the state is Trailers or Done and no step calls
\* the encoder or writes the output buffer
C34_EncoderProtocol ==
    /\ []((IsCompressedBody /\ InChunk) => (state = "Reading" /\ ~enc.finishing))
    /\ []((IsCompressedBody /\ enc.finished) => state \in {"Trailers", "Done"})
    /\ [][(IsCompressedBody /\ NewCalls \cap {"encode", "flush"} # {}) =>
             (state = "Reading" /\ state' = "Reading" /\ ~enc'.finishing)]_vars
    /\ [][(IsCompressedBody /\ "finish" \in NewCalls) => state = "Finishing"]_vars
    /\ [][(IsCompressedBody /\ enc.finishing) =>
             /\ NewCalls \subseteq {"finish"}
             /\ enc'.taken = enc.taken
             /\ ~InChunk' /\ state' # "Reading"]_vars
    /\ [][(IsCompressedBody /\ enc.finished) =>
             /\ NewCalls = {}
             /\ enc' = enc /\ output_buffer' = output_buffer]_vars

\* encode, flush and finish have each written a run, finish is done, and
\* a poll_frame after that called nothing
C34_Witness ==
    /\ IsCompressedBody /\ Unwrap(stream).always_flush
    /\ pull = "idle" /\ state = "Done" /\ calls = {}
    /\ enc.finished /\ ~enc.failed /\ enc.stalls = 0
    /\ enc.taken = <<"a", "b">>
    /\ Len(enc.output) = 3 /\ Len(emitted) = 2

=============================================================================
